---- MODULE Spec2Model ----
(***************************************************************************)
(* The background service worker of the Twitch zkLogin wallet extension    *)
(* (src/src/popup/main.tsx, lines 13-945, is the worker's source) with the *)
(* storage wrappers of src/src/shared/storage.ts and the options page's    *)
(* "clear sessions" action (src/src/options/main.tsx).                     *)
(*                                                                         *)
(* Every request received by chrome.runtime.onMessage runs as one async    *)
(* task in a request slot p.  A task is cut into steps at its awaits: an   *)
(* action is what the task does from the completion of one awaited         *)
(* operation up to the issue of the next.  The answer of an awaited        *)
(* collaborator (storage, network, OAuth window, chain RPC) is a parameter *)
(* of the action that consumes it; each specification draws the answers    *)
(* from its own bounded sets.  calls[p] records, in order, what request p  *)
(* has done: the outward operations it issued, the entry of                *)
(* ensureSuiForTransaction with its thresholds, the balances read and the  *)
(* faucet's answer.                                                        *)
(***************************************************************************)
EXTENDS Integers, Sequences, FiniteSets, TLC

\* ------------------------------------------------------------------ bounds
MaxSeqRequests == 4    \* requests served one after the other (SpecSeq, SpecConfig)

\* ------------------------------------------------------- program constants
EPHEMERAL_EPOCH_OFFSET == 2
GAS_BUFFER_MIST == 50000000
MAX_GAS_COINS == 32
FAUCET_RETRY_DELAYS_MS == <<700, 1500, 2500, 4000, 6000>>
IS_TESTNET == TRUE

Procs == 1..MaxSeqRequests

VARIABLES
    store,           \* chrome.storage.session[SESSION_KEY]: list of AccountSession
    overlay,         \* chrome.storage.sync[OVERLAY_KEY]: "unset", "true" or "false"
    userConfig,      \* chrome.storage.local[CONFIG_KEY]: saved keys (<<>> when nothing saved)
    cachedDefaults,  \* storage.ts module variable (<<>> when null)
    bundle,          \* what fetching config.json yields
    kind,            \* kind[p]: message type of the request in slot p, or "idle"
    pc,              \* pc[p]: the await the task is suspended at
    loc,             \* loc[p]: the task's local variables
    resp,            \* resp[p]: the envelope passed to sendResponse
    calls,           \* calls[p]: what the task has done so far, in order
    hook,            \* hook[p]: the detached registerAccountWithBackend call
    dirty,           \* dirty[p]: a store/overlay write happened since GET_STATE p began
    now,             \* Date.now(), a strictly increasing clock
    entropy,         \* fresh random values drawn so far (keypairs, randomness)
    nreq,            \* requests received so far
    probe            \* a prover response body put to fetchZkProof bare and wrapped in `data`

vars == <<store, overlay, userConfig, cachedDefaults, bundle, kind, pc, loc,
          resp, calls, hook, dirty, now, entropy, nreq, probe>>

\* --------------------------------------------------------------- utilities
RECURSIVE SeqFilterAddr(_, _)
\* sessions.filter(s => s.address !== address)
SeqFilterAddr(sessions, address) ==
    IF sessions = <<>> THEN <<>>
    ELSE IF Head(sessions).address = address
         THEN SeqFilterAddr(Tail(sessions), address)
         ELSE <<Head(sessions)>> \o SeqFilterAddr(Tail(sessions), address)

NoLoc == <<>>
\* what fetchZkProof makes of a body, before it has been called
NoResult == [ok |-> FALSE, error |-> "", keys |-> {}]
NoProbe == [raw |-> [isObject |-> FALSE, fields |-> <<>>],
            bareDone |-> FALSE, bare |-> NoResult, wrappedDone |-> FALSE, wrapped |-> NoResult]
NoResp == [type |-> "none"]
Pending == [pending |-> TRUE]

\* formatError(error) of an Error: its message
formatError(message) == message

ErrorResponse(type, message) == [type |-> type, ok |-> FALSE, error |-> formatError(message)]

\* s.trim() is not empty
TrimmedNonEmpty(text) == text \notin {"", " "}

\* ------------------------------------------------------------ shared/storage
ConfigKeys == {"twitchClientId", "saltServiceUrl", "zkProverUrl",
               "zkProverAuthToken", "backendRegistrationUrl", "nftUploadUrl"}

BASE_DEFAULT_CONFIG ==
    [twitchClientId |-> "",
     saltServiceUrl |-> "/dummy-salt-service.json",
     zkProverUrl |-> "https://prover-dev.mystenlabs.com/v1",
     zkProverAuthToken |-> "",
     backendRegistrationUrl |-> "",
     nftUploadUrl |-> "https://zklogin.wiimdy.kr/api/walrus/upload"]

\* The URLs the model writes into saltServiceUrl, with what the two regular
\* expressions of sanitizeConfig make of each.
\*   /\/salts(?!\/ensure)\/?$/i  matches a URL ending in "/salts" or "/salts/"
\*   replace(/\/$/, '') + '/ensure'
MatchesSaltsTail(url) == url \in {"https://api.example/salts", "https://api.example/salts/",
                                  "https://api.example/SALTS"}
StripSlashAppendEnsure(url) ==
    CASE url = "https://api.example/salts" -> "https://api.example/salts/ensure"
      [] url = "https://api.example/salts/" -> "https://api.example/salts/ensure"
      [] url = "https://api.example/SALTS" -> "https://api.example/SALTS/ensure"
      [] OTHER -> url

\* a sanitizeConfig that rewrites nothing
sanitizeConfigUnchanged(config) == config

sanitizeConfig(config) ==
    IF "saltServiceUrl" \in DOMAIN config /\ MatchesSaltsTail(config.saltServiceUrl)
    THEN [config EXCEPT !.saltServiceUrl = StripSlashAppendEnsure(@)]
    ELSE config

\* the spread with the precedence reversed
SpreadReversed(lower, upper) == lower @@ upper

\* { ...lower, ...upper }
Spread(lower, upper) == upper @@ lower

\* the value resolveDefaults stores in cachedDefaults for a config.json fetch
DefaultsFromBundle(b) ==
    IF b.ok THEN Spread(BASE_DEFAULT_CONFIG, b.data) ELSE BASE_DEFAULT_CONFIG

\* getOverlayEnabled: stored[OVERLAY_KEY] ?? true
getOverlayEnabled(o) == IF o = "unset" THEN TRUE ELSE o = "true"

\* a projection that hands the whole session on
LeakySession(s) == s

\* sessionToPublicData / one element of sessionsToPublicData
sessionToPublicData(s) ==
    [address |-> s.address, provider |-> s.provider, sub |-> s.sub, aud |-> s.aud,
     createdAt |-> s.createdAt, maxEpoch |-> s.maxEpoch]

sessionsToPublicData(sessions) ==
    [i \in 1..Len(sessions) |-> sessionToPublicData(sessions[i])]

\* --------------------------------------------------- per-request bookkeeping
Set(f, p, v) == [f EXCEPT ![p] = v]

\* the task in slot p moves to await `newpc` with locals `newloc`, having issued `issued`
Goto(p, newpc, newloc, issued) ==
    /\ pc' = Set(pc, p, newpc)
    /\ loc' = Set(loc, p, newloc)
    /\ calls' = Set(calls, p, calls[p] \o issued)
    /\ resp' = resp

\* the task in slot p ends and the listener passes `response` to sendResponse
Respond(p, response, issued) ==
    /\ pc' = Set(pc, p, "done")
    /\ loc' = Set(loc, p, NoLoc)
    /\ calls' = Set(calls, p, calls[p] \o issued)
    /\ resp' = Set(resp, p, response)

\* a task that throws with nobody to catch: it ends and sendResponse is never called
FailSilently(p, message) == Respond(p, NoResp, <<>>)

\* the task throws: its own catch block, or the listener's .catch, builds the failure
Fail(p, message) == Respond(p, ErrorResponse(kind[p], message), <<>>)

\* a write to the session store or the overlay flag marks every GET_STATE that has begun
MarkDirty == dirty' = [q \in Procs |-> kind[q] = "GET_EXTENSION_STATE"]
KeepDirty == dirty' = dirty

Receive(p, type) ==
    /\ kind[p] = "idle"
    /\ \A q \in Procs : q < p => kind[q] # "idle"
    /\ kind' = Set(kind, p, type)
    /\ nreq' = nreq + 1


\* ----------------------------------------------------- loadConfig (storage.ts)
\* loadConfig up to its first await: resolveDefaults returns the cache or starts
\* the fetch of config.json, and chrome.storage.local.get is issued.
LoadConfigBegin(p) ==
    Goto(p, "loadConfig",
         [defaults |-> IF cachedDefaults # <<>> THEN cachedDefaults ELSE Pending,
          stored |-> Pending],
         (IF cachedDefaults # <<>> THEN <<>> ELSE <<[op |-> "fetch:config.json"]>>)
             \o <<[op |-> "storage.local.get"]>>)

\* uploadNftImage has the config and the session: the endpoint is checked and the image
\* is handed to ensurePngBlob
UploadProceed(p, config, session) ==
    IF ~TrimmedNonEmpty(config.nftUploadUrl)
    THEN Fail(p, "NFT upload endpoint is not configured. Set it in the extension options.")
    ELSE Goto(p, "blob", [endpoint |-> config.nftUploadUrl, session |-> session],
              <<[op |-> "ensurePngBlob"]>>)

\* a login that goes on without looking at the client ID
AfterLoadConfigUnchecked(p, config) ==
    CASE kind[p] = "START_TWITCH_LOGIN" ->
            Goto(p, "epoch", [config |-> config], <<[op |-> "getLatestSuiSystemState"]>>)
      [] kind[p] = "GET_CONFIG" ->
            Respond(p, [type |-> "GET_CONFIG", ok |-> TRUE, data |-> [config |-> config]], <<>>)
      [] kind[p] = "UPLOAD_NFT_IMAGE" ->
            IF loc[p].session = Pending
            THEN Goto(p, "session", [config |-> config, address |-> loc[p].address,
                                     session |-> Pending], <<>>)
            ELSE UploadProceed(p, config, loc[p].session)

\* the task that called loadConfig resumes with its result; uploadNftImage waits for the
\* session as well
AfterLoadConfig(p, config) ==
    CASE kind[p] = "START_TWITCH_LOGIN" ->
            IF config.twitchClientId = ""
            THEN Fail(p, "Twitch client ID is required. Please configure it in the extension options.")
            ELSE Goto(p, "epoch", [config |-> config], <<[op |-> "getLatestSuiSystemState"]>>)
      [] kind[p] = "GET_CONFIG" ->
            Respond(p, [type |-> "GET_CONFIG", ok |-> TRUE, data |-> [config |-> config]], <<>>)
      [] kind[p] = "UPLOAD_NFT_IMAGE" ->
            IF loc[p].session = Pending
            THEN Goto(p, "session", [config |-> config, address |-> loc[p].address,
                                     session |-> Pending], <<>>)
            ELSE UploadProceed(p, config, loc[p].session)

\* the locals of the task that awaits loadConfig, beside those of loadConfig
Caller(p) == [k \in DOMAIN loc[p] \ {"defaults", "stored"} |-> loc[p][k]]

\* a loadConfig that saves what it merged every time
LoadConfigMergeAlwaysSaving(p, defaults, stored) ==
    Goto(p, "saveSanitized", [config |-> sanitizeConfig(Spread(defaults, stored))] @@ Caller(p),
         <<[op |-> "storage.local.set"]>>)

\* Promise.all has both values: merge, sanitize, persist back when sanitizing changed it
LoadConfigMerge(p, defaults, stored) ==
    LET merged == Spread(defaults, stored)
        sanitized == sanitizeConfig(merged)
    IN  IF sanitized # merged
        THEN Goto(p, "saveSanitized", [config |-> sanitized] @@ Caller(p),
                  <<[op |-> "storage.local.set"]>>)
        ELSE AfterLoadConfig(p, merged)

\* the fetch of config.json ends; resolveDefaults fills the cache
LoadConfigFetched(p) ==
    /\ pc[p] = "loadConfig" /\ loc[p].defaults = Pending
    /\ LET defaults == DefaultsFromBundle(bundle)
       IN  /\ cachedDefaults' = defaults
           /\ IF loc[p].stored = Pending
              THEN Goto(p, "loadConfig", [loc[p] EXCEPT !.defaults = defaults], <<>>)
              ELSE LoadConfigMerge(p, defaults, loc[p].stored)
    /\ UNCHANGED <<probe, store, overlay, userConfig, bundle, kind, hook, dirty, now, entropy, nreq>>

\* chrome.storage.local.get(CONFIG_KEY) ends
LoadConfigStored(p, ok) ==
    /\ pc[p] = "loadConfig" /\ loc[p].stored = Pending
    /\ IF ~ok THEN Fail(p, "storage.local.get failed")
       ELSE IF loc[p].defaults = Pending
       THEN Goto(p, "loadConfig", [loc[p] EXCEPT !.stored = userConfig], <<>>)
       ELSE LoadConfigMerge(p, loc[p].defaults, userConfig)
    /\ UNCHANGED <<probe, store, overlay, userConfig, cachedDefaults, bundle, kind, hook,
                   dirty, now, entropy, nreq>>

\* saveConfig(sanitized) inside loadConfig ends
LoadConfigSaved(p, ok) ==
    /\ pc[p] = "saveSanitized"
    /\ IF ok
       THEN /\ userConfig' = sanitizeConfig(loc[p].config)
            /\ AfterLoadConfig(p, loc[p].config)
       ELSE /\ userConfig' = userConfig
            /\ Fail(p, "storage.local.set failed")
    /\ UNCHANGED <<probe, store, overlay, cachedDefaults, bundle, kind, hook, dirty, now, entropy, nreq>>


\* ------------------------------------------------------------ JSON and URLs
\* A JSON value carrying a number or a string: t is "absent", "string" or "number";
\* text tells a string that is a decimal integer ("dec") from the empty string
\* ("empty") and from any other text ("other"); n is the integer denoted.
JAbsent == [t |-> "absent", text |-> "empty", n |-> 0]
JDec(n) == [t |-> "string", text |-> "dec", n |-> n]
JText == [t |-> "string", text |-> "other", n |-> 0]
JEmpty == [t |-> "string", text |-> "empty", n |-> 0]
JNum(n) == [t |-> "number", text |-> "dec", n |-> n]

\* !v
Falsy(v) == v.t = "absent" \/ (v.t = "string" /\ v.text = "empty") \/ (v.t = "number" /\ v.n = 0)

\* BigInt(v) does not throw
BigIntOk(v) == v.t = "number" \/ (v.t = "string" /\ v.text # "other")
BigInt(v) == v.n

\* a test that takes every URL for an absolute one
AnyUrlAbsolute(url) == TRUE

\* /^https?:/i.test(url)
IsAbsoluteHttp(url) == url \notin {"", "/dummy-salt-service.json", "prover.local/v1"}
\* url.toLowerCase().includes('/salts')
IncludesSalts(url) == url \in {"https://api.example/salts", "https://api.example/salts/",
                               "https://api.example/SALTS", "https://api.example/salts/ensure",
                               "https://api.example/SALTS/ensure"}
\* url.toLowerCase().includes('/ensure')
IncludesEnsure(url) == url \in {"https://api.example/salts/ensure", "https://api.example/SALTS/ensure"}
\* targetUrl.endsWith('dummy-salt-service.json'), after chrome.runtime.getURL
EndsWithDummy(url) == url = "/dummy-salt-service.json"

\* ---------------------------------------------------------- identity tokens
Str(text) == [array |-> FALSE, items |-> <<text>>]
Arr(items) == [array |-> TRUE, items |-> items]
TWITCH_ISS == "https://id.twitch.tv/oauth2"

\* the tokens the model's OAuth window can hand back; "garbage" is no JWT
jwtWellFormed(token) == token # "garbage"

\* jwtDecode(token): a claim the token lacks is the empty string
jwtDecode(token) ==
    CASE token = "jwt.u1" -> [sub |-> "u1", aud |-> Str("clientA"), iss |-> TWITCH_ISS]
      [] token = "jwt.u2" -> [sub |-> "u2", aud |-> Str("clientA"), iss |-> TWITCH_ISS]
      [] token = "jwt.u3" -> [sub |-> "u3", aud |-> Str("clientA"), iss |-> TWITCH_ISS]
      [] token = "jwt.nosub" -> [sub |-> "", aud |-> Str("clientA"), iss |-> TWITCH_ISS]
      [] token = "jwt.noaud" -> [sub |-> "u1", aud |-> Str(""), iss |-> TWITCH_ISS]
      [] token = "jwt.noiss" -> [sub |-> "u1", aud |-> Str("clientA"), iss |-> ""]
      [] token = "jwt.arr" -> [sub |-> "u2", aud |-> Arr(<<"clientA", "clientB">>), iss |-> TWITCH_ISS]
      [] token = "jwt.arr0" -> [sub |-> "u2", aud |-> Arr(<<>>), iss |-> TWITCH_ISS]
      [] token = "jwt.arrE" -> [sub |-> "u2", aud |-> Arr(<<"">>), iss |-> TWITCH_ISS]

\* a check that lets every audience pass
AudNeverFalsy(aud) == FALSE

\* !decodedJwt.aud : an array, even an empty one, is truthy
AudFalsy(aud) == ~aud.array /\ aud.items[1] = ""
\* Array.isArray(aud) ? aud[0] : aud
FirstAudience(aud) ==
    IF aud.array /\ aud.items = <<>> THEN "undefined" ELSE aud.items[1]

\* launchWebAuthFlow's redirect URL: whether it has a '#', and the fragment's parameters
NoUrl == [present |-> FALSE]
Url(hash, params) == [present |-> TRUE, hash |-> hash, params |-> params]

\* extractFragmentParam(url, param); null is the empty string
extractFragmentParam(url, param) ==
    IF ~url.hash THEN ""
    ELSE IF param \in DOMAIN url.params THEN url.params[param] ELSE ""

\* ------------------------------------------------- zkLogin library functions
\* genAddressSeed is a hash of its arguments, computeZkLoginAddressFromSeed a hash
\* of seed and issuer: both are modelled as injective pairings.
genAddressSeed(salt, name, value, aud) == <<salt, name, value, aud>>
computeZkLoginAddressFromSeed(seed, iss) == [seed |-> seed, iss |-> iss]
\* jwtToAddress(jwt, salt)
jwtToAddress(token, salt) ==
    LET c == jwtDecode(token)
    IN  computeZkLoginAddressFromSeed(genAddressSeed(salt, "sub", c.sub, FirstAudience(c.aud)), c.iss)

\* BN254 scalar field modulus, scaled down to a small prime
FIELD_MODULUS_BN254 == 13

\* x % m on BigInt: the remainder takes the sign of the dividend
BigIntRem(x, m) == IF x >= 0 THEN x % m ELSE -((-x) % m)

normalizeToField(x) ==
    LET n == BigIntRem(x, FIELD_MODULUS_BN254)
    IN  IF n = 0 THEN 1 ELSE n


\* ------------------------------------------------------------- fetchZkProof
\* A prover response body is [isObject, fields]: fields maps the keys present to
\* their values.  proofPoints, issBase64Details and headerBase64 carry a number that
\* stands for their content (0 is a falsy value: null, "", 0), addressSeed carries
\* [t, seed] with t "string" (a string of digits), "text" (any other non-empty string),
\* "number", "empty" (the empty string) or "other" (an object, a boolean, null), data
\* carries a body.
ProofKeys == {"proofPoints", "issBase64Details", "headerBase64"}

\* r.proofPoints && r.issBase64Details && r.headerBase64
HasProofFields(fields) == \A k \in ProofKeys : k \in DOMAIN fields /\ fields[k] # 0

\* a requestor that never looks under `data`
NoNested(fields) == <<>>

\* (typeof container.data === 'object' && container.data) ? container.data : null
NestedOf(fields) ==
    IF "data" \in DOMAIN fields /\ fields.data.isObject THEN fields.data.fields ELSE <<>>

\* the addressSeed fetchZkProof settles on, [ok, seed]: the seed is a string, of which
\* `numeric` tells whether BigInt accepts it
AddressSeedOf(src) ==
    IF "addressSeed" \in DOMAIN src /\ src.addressSeed.t \in {"string", "text", "number"}
    THEN [ok |-> TRUE, seed |-> [text |-> src.addressSeed.seed,
                                 numeric |-> src.addressSeed.t # "text"]]
    ELSE [ok |-> FALSE]

\* fetchZkProof from `const raw = await response.json()` on: [ok, proof] or [ok, error, keys]
fetchZkProofParse(raw) ==
    IF ~raw.isObject
    THEN [ok |-> FALSE, error |-> "Invalid proof response: expected object.", keys |-> {}]
    ELSE LET top == raw.fields
             nested == NestedOf(top)
         IN  IF ~HasProofFields(top) /\ ~HasProofFields(nested)
             THEN [ok |-> FALSE, error |-> "Invalid proof response: missing fields. Keys present: ",
                   keys |-> DOMAIN top]
             ELSE LET src == IF HasProofFields(top) THEN top ELSE nested
                      seed == AddressSeedOf(src)
                  IN  IF ~seed.ok
                      THEN [ok |-> FALSE,
                            error |-> "Invalid proof response: missing addressSeed. Keys present: ",
                            keys |-> DOMAIN src]
                      ELSE [ok |-> TRUE,
                            proof |-> [proofPoints |-> src.proofPoints,
                                       issBase64Details |-> src.issBase64Details,
                                       headerBase64 |-> src.headerBase64,
                                       addressSeed |-> seed.seed]]

\* --------------------------------------------------------------- resolveSalt
\* the request resolveSalt / fetchSalt sends for a configured URL
SaltRequest(url, twitchId, jwt) ==
    IF IncludesSalts(url)
    THEN [op |-> "fetch", service |-> "salt", mode |-> "backend", method |-> "POST",
          url |-> IF IncludesEnsure(url) THEN url ELSE StripSlashAppendEnsure(url),
          body |-> [jwt |-> jwt, twitchId |-> twitchId]]
    ELSE [op |-> "fetch", service |-> "salt", mode |-> "fallback",
          method |-> IF EndsWithDummy(url) THEN "GET" ELSE "POST",
          url |-> url,
          body |-> IF EndsWithDummy(url) THEN <<>> ELSE [jwt |-> jwt]]

\* what resolveSalt makes of the salt service's answer [ok, salt]: [ok, salt] or [ok, error]
SaltResult(mode, ans) ==
    IF mode = "backend"
    THEN IF ~ans.ok THEN [ok |-> FALSE, error |-> "Salt ensure failed (HTTP)"]
         ELSE IF Falsy(ans.salt) \/ ans.salt.t # "string"
              THEN [ok |-> FALSE, error |-> "Invalid salt ensure response: missing salt"]
              ELSE [ok |-> TRUE, salt |-> ans.salt]
    ELSE IF ~ans.ok THEN [ok |-> FALSE, error |-> "Salt service responded with status"]
         ELSE IF Falsy(ans.salt)
              THEN [ok |-> FALSE, error |-> "Salt service response missing salt field."]
              ELSE [ok |-> TRUE, salt |-> ans.salt]


\* ---------------------------------------------------------- startTwitchLogin
\* START_TWITCH_LOGIN arrives: handleMessage calls startTwitchLogin, which awaits loadConfig
StartLogin(p) ==
    /\ Receive(p, "START_TWITCH_LOGIN")
    /\ LoadConfigBegin(p)
    /\ UNCHANGED <<probe, store, overlay, userConfig, cachedDefaults, bundle, hook, dirty,
                   now, entropy>>

\* getLatestSuiSystemState returned `epoch`
EpochRead(epoch) == [op |-> "epoch", epoch |-> epoch]
\* launchWebAuthFlow called back with `ans`
Redirected(ans) == [op |-> "redirected", ans |-> ans]

\* a worker that keeps one keypair and one randomness for all its logins
LoginEpochSharedKey(p, ans) ==
    /\ kind[p] = "START_TWITCH_LOGIN" /\ pc[p] = "epoch"
    /\ entropy' = entropy
    /\ IF ~ans.ok
       THEN Fail(p, "getLatestSuiSystemState failed")
       ELSE LET maxEpoch == ans.epoch + EPHEMERAL_EPOCH_OFFSET
                nonce == [publicKey |-> 1, maxEpoch |-> maxEpoch, randomness |-> 2]
            IN  Goto(p, "oauth",
                     [config |-> loc[p].config, maxEpoch |-> maxEpoch,
                      keyId |-> 1, randomness |-> 2],
                     <<EpochRead(ans.epoch),
                       [op |-> "launchWebAuthFlow", client_id |-> loc[p].config.twitchClientId,
                        nonce |-> nonce]>>)
    /\ UNCHANGED <<probe, store, overlay, userConfig, cachedDefaults, bundle, kind, hook, dirty,
                   now, nreq>>

\* getLatestSuiSystemState ends: maxEpoch, a fresh keypair and randomness, the nonce,
\* and the OAuth window is opened
LoginEpoch(p, ans) ==
    /\ kind[p] = "START_TWITCH_LOGIN" /\ pc[p] = "epoch"
    /\ IF ~ans.ok
       THEN /\ Fail(p, "getLatestSuiSystemState failed")
            /\ entropy' = entropy
       ELSE LET maxEpoch == ans.epoch + EPHEMERAL_EPOCH_OFFSET
                keyId == entropy + 1
                randomness == entropy + 2
                nonce == [publicKey |-> keyId, maxEpoch |-> maxEpoch, randomness |-> randomness]
            IN  /\ entropy' = entropy + 2
                /\ Goto(p, "oauth",
                        [config |-> loc[p].config, maxEpoch |-> maxEpoch,
                         keyId |-> keyId, randomness |-> randomness],
                        <<EpochRead(ans.epoch),
                          [op |-> "launchWebAuthFlow", client_id |-> loc[p].config.twitchClientId,
                           nonce |-> nonce]>>)
    /\ UNCHANGED <<probe, store, overlay, userConfig, cachedDefaults, bundle, kind, hook, dirty,
                   now, nreq>>

\* the error startTwitchLogin throws on the answer of launchWebAuthFlow, "" when the
\* token and its claims pass
OAuthError(ans) ==
    IF ans.lastError # "" THEN ans.lastError
    ELSE IF ~ans.url.present THEN "No redirect URL returned from auth flow."
    ELSE LET idToken == extractFragmentParam(ans.url, "id_token")
         IN  IF idToken = "" THEN "Twitch login failed: no id_token returned."
             ELSE IF ~jwtWellFormed(idToken) THEN "Invalid token specified"
             ELSE LET decodedJwt == jwtDecode(idToken)
                  IN  IF decodedJwt.sub = "" THEN "Twitch JWT missing subject identifier."
                      ELSE IF AudFalsy(decodedJwt.aud) THEN "Twitch JWT missing audience."
                      ELSE IF decodedJwt.iss = "" THEN "Twitch JWT missing issuer."
                      ELSE ""

\* launchWebAuthFlow calls back: the token is extracted and decoded, its claims are
\* checked, and the salt request is sent
LoginOAuth(p, ans) ==
    /\ kind[p] = "START_TWITCH_LOGIN" /\ pc[p] = "oauth"
    /\ IF OAuthError(ans) # ""
       THEN Respond(p, ErrorResponse(kind[p], OAuthError(ans)), <<Redirected(ans)>>)
       ELSE LET idToken == extractFragmentParam(ans.url, "id_token")
                decodedJwt == jwtDecode(idToken)
                request == SaltRequest(loc[p].config.saltServiceUrl, decodedJwt.sub, idToken)
            IN  Goto(p, "salt",
                     loc[p] @@ [idToken |-> idToken, sub |-> decodedJwt.sub,
                                audience |-> FirstAudience(decodedJwt.aud),
                                issuer |-> decodedJwt.iss,
                                saltMode |-> request.mode],
                     <<Redirected(ans), request>>)
    /\ UNCHANGED <<probe, store, overlay, userConfig, cachedDefaults, bundle, kind, hook, dirty,
                   now, entropy, nreq>>

\* a login that goes from the salt straight to the session store
LoginSaltSkippingProof(p, ans) ==
    /\ kind[p] = "START_TWITCH_LOGIN" /\ pc[p] = "salt"
    /\ LET salt == SaltResult(loc[p].saltMode, ans)
       IN  IF ~salt.ok THEN Fail(p, salt.error)
           ELSE IF ~BigIntOk(salt.salt) THEN Fail(p, "Cannot convert to a BigInt")
           ELSE LET saltBigInt == normalizeToField(BigInt(salt.salt))
                    seed == genAddressSeed(saltBigInt, "sub", loc[p].sub, loc[p].audience)
                IN  Goto(p, "readSessions",
                         loc[p] @@ [salt |-> salt.salt, saltBigInt |-> saltBigInt,
                                    proof |-> [proofPoints |-> 0, issBase64Details |-> 0,
                                               headerBase64 |-> 0,
                                               addressSeed |-> [text |-> seed, numeric |-> TRUE]],
                                    userAddress |->
                                        computeZkLoginAddressFromSeed(seed, loc[p].issuer)],
                         <<[op |-> "storage.session.get"]>>)
    /\ UNCHANGED <<probe, store, overlay, userConfig, cachedDefaults, bundle, kind, hook, dirty,
                   now, entropy, nreq>>

\* the salt service answers: the salt is reduced into the field and the proof is requested
LoginSalt(p, ans) ==
    /\ kind[p] = "START_TWITCH_LOGIN" /\ pc[p] = "salt"
    /\ LET salt == SaltResult(loc[p].saltMode, ans)
       IN  IF ~salt.ok THEN Fail(p, salt.error)
           ELSE IF ~BigIntOk(salt.salt) THEN Fail(p, "Cannot convert to a BigInt")
           ELSE IF ~IsAbsoluteHttp(loc[p].config.zkProverUrl)
                THEN Fail(p, "zkProverUrl must be an absolute HTTP(S) URL.")
           ELSE Goto(p, "proof",
                     loc[p] @@ [salt |-> salt.salt,
                                saltBigInt |-> normalizeToField(BigInt(salt.salt))],
                     <<[op |-> "fetch", service |-> "prover", method |-> "POST",
                        url |-> loc[p].config.zkProverUrl, jwtHeader |-> loc[p].idToken,
                        body |-> [maxEpoch |-> loc[p].maxEpoch,
                                  randomness |-> loc[p].randomness,
                                  ephemeralPublicKey |-> loc[p].keyId]]>>)
    /\ UNCHANGED <<probe, store, overlay, userConfig, cachedDefaults, bundle, kind, hook, dirty,
                   now, entropy, nreq>>

\* Object.keys(container).join(', '): the keys in the order the model writes bodies in
KeyOrder == <<"proofPoints", "issBase64Details", "headerBase64", "addressSeed", "data">>
RECURSIVE Join(_)
Join(words) ==
    IF words = <<>> THEN ""
    ELSE IF Len(words) = 1 THEN words[1]
    ELSE words[1] \o ", " \o Join(Tail(words))
JoinKeys(keys) == Join(SelectSeq(KeyOrder, LAMBDA k : k \in keys))

\* the prover's fetch ended with `ans`
Proved(ans) == [op |-> "proved", ans |-> ans]

\* the error startTwitchLogin throws between the prover's answer and getAccountSessions,
\* "" when there is none.  jwtToAddress decodes the token and hashes the salt with the
\* zkLogin library, whose source is not in the repository: `rejects` tells whether it
\* throws for a salt that is no element of the field and for an audience that is an array.
ProofError(l, ans, rejects) ==
    IF ~ans.ok THEN "ZK prover error (HTTP)"
    ELSE LET parsed == fetchZkProofParse(ans.raw)
         IN  IF ~parsed.ok THEN parsed.error \o JoinKeys(parsed.keys)
             ELSE IF ~parsed.proof.addressSeed.numeric THEN "Cannot convert to a BigInt"
             ELSE IF rejects /\ l.saltBigInt \notin 0..(FIELD_MODULUS_BN254 - 1)
                  THEN "Element not in the BN254 field"
             ELSE IF rejects /\ jwtDecode(l.idToken).aud.array
                  THEN "Not supported aud. Aud is an array, string was expected."
             ELSE ""

\* the prover answers: the proof is parsed, the address derived from the proof's
\* address seed, and the stored sessions are requested
LoginProof(p, ans, rejects) ==
    /\ kind[p] = "START_TWITCH_LOGIN" /\ pc[p] = "proof"
    /\ IF ProofError(loc[p], ans, rejects) # ""
       THEN Respond(p, ErrorResponse(kind[p], ProofError(loc[p], ans, rejects)), <<Proved(ans)>>)
       ELSE LET proof == fetchZkProofParse(ans.raw).proof
                userAddressFromProof ==
                    computeZkLoginAddressFromSeed(proof.addressSeed.text, loc[p].issuer)
            IN  Goto(p, "readSessions",
                     loc[p] @@ [proof |-> proof, userAddress |-> userAddressFromProof],
                     <<Proved(ans), [op |-> "storage.session.get"]>>)
    /\ UNCHANGED <<probe, store, overlay, userConfig, cachedDefaults, bundle, kind, hook, dirty,
                   now, entropy, nreq>>

\* a session that keeps the address derived from the token and the salt
BuildSessionSaltAddress(l, createdAt) ==
    [address |-> jwtToAddress(l.idToken, l.saltBigInt), provider |-> "twitch", sub |-> l.sub,
     aud |-> l.audience, maxEpoch |-> l.maxEpoch, createdAt |-> createdAt, salt |-> l.saltBigInt,
     randomness |-> l.randomness, jwt |-> l.idToken, proof |-> l.proof,
     ephemeralPrivateKey |-> l.keyId]

\* the AccountSession startTwitchLogin builds from its locals at time `createdAt`
BuildSession(l, createdAt) ==
    [address |-> l.userAddress, provider |-> "twitch", sub |-> l.sub, aud |-> l.audience,
     maxEpoch |-> l.maxEpoch, createdAt |-> createdAt, salt |-> l.saltBigInt,
     randomness |-> l.randomness, jwt |-> l.idToken, proof |-> l.proof,
     ephemeralPrivateKey |-> l.keyId]

\* the new list without the filter, and with the new session put last
UpdatedSessionsUnfiltered(sessions, session) == <<session>> \o sessions
UpdatedSessionsAppended(sessions, session) ==
    SeqFilterAddr(sessions, session.address) \o <<session>>

\* [session, ...sessions.filter(existing => existing.address !== session.address)]
UpdatedSessions(sessions, session) == <<session>> \o SeqFilterAddr(sessions, session.address)

\* getAccountSessions ends: the session is built and the new list is handed to
\* setAccountSessions
LoginRead(p, ok) ==
    /\ kind[p] = "START_TWITCH_LOGIN" /\ pc[p] = "readSessions"
    /\ IF ~ok
       THEN /\ Fail(p, "storage.session.get failed")
            /\ now' = now
       ELSE LET session == BuildSession(loc[p], now + 1)
            IN  /\ now' = now + 1
                /\ Goto(p, "writeSessions",
                        [config |-> loc[p].config, session |-> session, sessions |-> store,
                         updatedSessions |-> UpdatedSessions(store, session)],
                        <<[op |-> "storage.session.set"]>>)
    /\ UNCHANGED <<probe, store, overlay, userConfig, cachedDefaults, bundle, kind, hook, dirty,
                   entropy, nreq>>

\* the body registerAccountWithBackend POSTs
RegistrationRequest(config, session) ==
    [op |-> "fetch", service |-> "backend", method |-> "POST",
     url |-> config.backendRegistrationUrl,
     body |-> [walletAddress |-> session.address, provider |-> session.provider,
               twitchUserId |-> session.sub, audience |-> session.aud,
               registeredAt |-> session.createdAt]]

\* a write that reaches the store although setAccountSessions rejects
LoginWriteTorn(p, ok) ==
    /\ kind[p] = "START_TWITCH_LOGIN" /\ pc[p] = "writeSessions"
    /\ store' = loc[p].updatedSessions
    /\ MarkDirty
    /\ hook' = hook
    /\ IF ~ok THEN Fail(p, "storage.session.set failed")
       ELSE Respond(p, [type |-> "START_TWITCH_LOGIN", ok |-> TRUE,
                        data |-> [account |-> sessionToPublicData(loc[p].session)]], <<>>)
    /\ UNCHANGED <<probe, overlay, userConfig, cachedDefaults, bundle, kind, now, entropy, nreq>>

\* setAccountSessions ends: the webhook is started without being awaited and the
\* login answers with the account's public data
LoginWrite(p, ok) ==
    /\ kind[p] = "START_TWITCH_LOGIN" /\ pc[p] = "writeSessions"
    /\ IF ~ok
       THEN /\ Fail(p, "storage.session.set failed")
            /\ UNCHANGED <<store, hook, dirty>>
       ELSE LET config == loc[p].config
                session == loc[p].session
                registers == TrimmedNonEmpty(config.backendRegistrationUrl)
            IN  /\ store' = loc[p].updatedSessions
                /\ MarkDirty
                /\ hook' = IF registers THEN Set(hook, p, "inflight") ELSE hook
                /\ Respond(p, [type |-> "START_TWITCH_LOGIN", ok |-> TRUE,
                               data |-> [account |-> sessionToPublicData(session)]],
                           IF registers THEN <<RegistrationRequest(config, session)>> ELSE <<>>)
    /\ UNCHANGED <<probe, overlay, userConfig, cachedDefaults, bundle, kind, now, entropy, nreq>>

\* a webhook that is sent again when it was not accepted
WebhookDoneRetrying(p, outcome) ==
    /\ hook[p] = "inflight"
    /\ IF outcome = "registered"
       THEN hook' = Set(hook, p, outcome) /\ calls' = calls
       ELSE hook' = hook /\ calls' = Set(calls, p, calls[p] \o <<calls[p][Len(calls[p])]>>)
    /\ UNCHANGED <<probe, store, overlay, userConfig, cachedDefaults, bundle, kind, pc, loc, resp,
                   dirty, now, entropy, nreq>>

\* the webhook's fetch ends; registerAccountWithBackend only logs the outcome
WebhookDone(p, outcome) ==
    /\ hook[p] = "inflight"
    /\ hook' = Set(hook, p, outcome)
    /\ UNCHANGED <<probe, store, overlay, userConfig, cachedDefaults, bundle, kind, pc, loc, resp,
                   calls, dirty, now, entropy, nreq>>

\* ------------------------------------------------------------ logoutAccount
StartLogout(p, address) ==
    /\ Receive(p, "LOGOUT_ACCOUNT")
    /\ Goto(p, "readSessions", [address |-> address], <<[op |-> "storage.session.get"]>>)
    /\ UNCHANGED <<probe, store, overlay, userConfig, cachedDefaults, bundle, hook, dirty,
                   now, entropy>>

\* a logout that removes every session
LogoutReadDroppingAll(p, ok) ==
    /\ kind[p] = "LOGOUT_ACCOUNT" /\ pc[p] = "readSessions"
    /\ IF ~ok THEN Fail(p, "storage.session.get failed")
       ELSE Goto(p, "writeSessions", [address |-> loc[p].address, nextSessions |-> <<>>],
                 <<[op |-> "storage.session.set"]>>)
    /\ UNCHANGED <<probe, store, overlay, userConfig, cachedDefaults, bundle, kind, hook, dirty,
                   now, entropy, nreq>>

LogoutRead(p, ok) ==
    /\ kind[p] = "LOGOUT_ACCOUNT" /\ pc[p] = "readSessions"
    /\ IF ~ok THEN Fail(p, "storage.session.get failed")
       ELSE Goto(p, "writeSessions",
                 [address |-> loc[p].address,
                  nextSessions |-> SeqFilterAddr(store, loc[p].address)],
                 <<[op |-> "storage.session.set"]>>)
    /\ UNCHANGED <<probe, store, overlay, userConfig, cachedDefaults, bundle, kind, hook, dirty,
                   now, entropy, nreq>>

LogoutWrite(p, ok) ==
    /\ kind[p] = "LOGOUT_ACCOUNT" /\ pc[p] = "writeSessions"
    /\ IF ~ok
       THEN /\ Fail(p, "storage.session.set failed")
            /\ UNCHANGED <<store, dirty>>
       ELSE /\ store' = loc[p].nextSessions
            /\ MarkDirty
            /\ Respond(p, [type |-> "LOGOUT_ACCOUNT", ok |-> TRUE,
                           data |-> [accounts |-> sessionsToPublicData(loc[p].nextSessions)]],
                       <<>>)
    /\ UNCHANGED <<probe, overlay, userConfig, cachedDefaults, bundle, kind, hook, now, entropy, nreq>>

\* options page, handleClearSessions: chrome.storage.session.remove(SESSION_KEY)
ClearSessions ==
    /\ store' = <<>>
    /\ MarkDirty
    /\ UNCHANGED <<probe, overlay, userConfig, cachedDefaults, bundle, kind, pc, loc, resp, calls,
                   hook, now, entropy, nreq>>


\* ------------------------------------------------- GET_CONFIG and SAVE_CONFIG
StartGetConfig(p) ==
    /\ Receive(p, "GET_CONFIG")
    /\ LoadConfigBegin(p)
    /\ UNCHANGED <<probe, store, overlay, userConfig, cachedDefaults, bundle, hook, dirty,
                   now, entropy>>

\* SAVE_CONFIG arrives: saveConfig sanitizes the config and hands it to storage
StartSaveConfig(p, config) ==
    /\ Receive(p, "SAVE_CONFIG")
    /\ Goto(p, "saveConfig", [config |-> config, sanitized |-> sanitizeConfig(config)],
            <<[op |-> "storage.local.set"]>>)
    /\ UNCHANGED <<probe, store, overlay, userConfig, cachedDefaults, bundle, hook, dirty,
                   now, entropy>>

\* chrome.storage.local.set ends: the handler answers with the config as it was sent
SaveConfigDone(p, ok) ==
    /\ kind[p] = "SAVE_CONFIG" /\ pc[p] = "saveConfig"
    /\ IF ok
       THEN /\ userConfig' = loc[p].sanitized
            /\ Respond(p, [type |-> "SAVE_CONFIG", ok |-> TRUE,
                           data |-> [config |-> loc[p].config]], <<>>)
       ELSE /\ userConfig' = userConfig
            /\ Fail(p, "storage.local.set failed")
    /\ UNCHANGED <<probe, store, overlay, cachedDefaults, bundle, kind, hook, dirty,
                   now, entropy, nreq>>

\* ---------------------------------------------------------- getExtensionState
StartGetState(p) ==
    /\ Receive(p, "GET_EXTENSION_STATE")
    /\ Goto(p, "getState",
            [haveSessions |-> FALSE, sessions |-> <<>>, haveOverlay |-> FALSE,
             overlayEnabled |-> FALSE],
            <<[op |-> "storage.session.get"], [op |-> "storage.sync.get"]>>)
    /\ dirty' = Set(dirty, p, FALSE)
    /\ UNCHANGED <<probe, store, overlay, userConfig, cachedDefaults, bundle, hook, now, entropy>>

\* Promise.all has both values: the state is projected and returned
GetStateRespond(p, sessions, overlayEnabled) ==
    Respond(p, [type |-> "GET_EXTENSION_STATE", ok |-> TRUE,
                data |-> [state |-> [overlayEnabled |-> overlayEnabled,
                                     accounts |-> sessionsToPublicData(sessions)]]],
            <<>>)

\* getAccountSessions ends
GetStateSessions(p, ok) ==
    /\ kind[p] = "GET_EXTENSION_STATE" /\ pc[p] = "getState" /\ ~loc[p].haveSessions
    /\ IF ~ok THEN Fail(p, "storage.session.get failed")
       ELSE IF loc[p].haveOverlay THEN GetStateRespond(p, store, loc[p].overlayEnabled)
       ELSE Goto(p, "getState", [loc[p] EXCEPT !.haveSessions = TRUE, !.sessions = store], <<>>)
    /\ UNCHANGED <<probe, store, overlay, userConfig, cachedDefaults, bundle, kind, hook, dirty,
                   now, entropy, nreq>>

\* a getOverlayEnabled that stores the default it falls back to
GetStateOverlayPersisting(p, ok) ==
    /\ kind[p] = "GET_EXTENSION_STATE" /\ pc[p] = "getState" /\ ~loc[p].haveOverlay
    /\ overlay' = IF overlay = "unset" THEN "true" ELSE overlay
    /\ IF ~ok THEN Fail(p, "storage.sync.get failed")
       ELSE IF loc[p].haveSessions
            THEN GetStateRespond(p, loc[p].sessions, getOverlayEnabled(overlay))
       ELSE Goto(p, "getState",
                 [loc[p] EXCEPT !.haveOverlay = TRUE, !.overlayEnabled = getOverlayEnabled(overlay)],
                 <<>>)
    /\ UNCHANGED <<probe, store, userConfig, cachedDefaults, bundle, kind, hook, dirty,
                   now, entropy, nreq>>

\* getOverlayEnabled ends
GetStateOverlay(p, ok) ==
    /\ kind[p] = "GET_EXTENSION_STATE" /\ pc[p] = "getState" /\ ~loc[p].haveOverlay
    /\ IF ~ok THEN Fail(p, "storage.sync.get failed")
       ELSE IF loc[p].haveSessions
            THEN GetStateRespond(p, loc[p].sessions, getOverlayEnabled(overlay))
       ELSE Goto(p, "getState",
                 [loc[p] EXCEPT !.haveOverlay = TRUE, !.overlayEnabled = getOverlayEnabled(overlay)],
                 <<>>)
    /\ UNCHANGED <<probe, store, overlay, userConfig, cachedDefaults, bundle, kind, hook, dirty,
                   now, entropy, nreq>>

\* --------------------------------------------------------- SET_OVERLAY_ENABLED
StartSetOverlay(p, enabled) ==
    /\ Receive(p, "SET_OVERLAY_ENABLED")
    /\ Goto(p, "setOverlay", [enabled |-> enabled], <<[op |-> "storage.sync.set"]>>)
    /\ UNCHANGED <<probe, store, overlay, userConfig, cachedDefaults, bundle, hook, dirty,
                   now, entropy>>

SetOverlayDone(p, ok) ==
    /\ kind[p] = "SET_OVERLAY_ENABLED" /\ pc[p] = "setOverlay"
    /\ IF ~ok
       THEN /\ Fail(p, "storage.sync.set failed")
            /\ UNCHANGED <<overlay, dirty>>
       ELSE /\ overlay' = IF loc[p].enabled THEN "true" ELSE "false"
            /\ MarkDirty
            /\ Respond(p, [type |-> "SET_OVERLAY_ENABLED", ok |-> TRUE,
                           data |-> [enabled |-> loc[p].enabled]], <<>>)
    /\ UNCHANGED <<probe, store, userConfig, cachedDefaults, bundle, kind, hook, now, entropy, nreq>>

\* --------------------------------------------------- gas and coin provisioner
\* payload.amount is a number of SUI; the model carries twice its value in MIST, so
\* that half a MIST can be asked for.  toMist: BigInt(Math.floor(amount * 1e9))
toMist(amount) == amount.twiceMist \div 2

NoAmount == [isNumber |-> FALSE, finite |-> FALSE, twiceMist |-> 0]
Sui(twiceMist) == [isNumber |-> TRUE, finite |-> TRUE, twiceMist |-> twiceMist]
\* the numbers NaN and Infinity: BigInt(Math.floor(amount * 1e9)) throws a RangeError
NotFinite == [isNumber |-> TRUE, finite |-> FALSE, twiceMist |-> 0]
NOT_AN_INTEGER == "The number NaN cannot be converted to a BigInt because it is not an integer"
\* the first statement of ensureSuiForTransaction throws
ToMistThrows(payload) ==
    payload.kind = "transfer-sui" /\ payload.amount.isNumber /\ ~payload.amount.finite

TransferAmountMist(payload) ==
    IF payload.kind = "transfer-sui" /\ payload.amount.isNumber THEN toMist(payload.amount) ELSE 0

MinimumRequired(transferAmountMist) ==
    (IF transferAmountMist > 0 THEN transferAmountMist ELSE 0) + GAS_BUFFER_MIST

RECURSIVE PositiveCoins(_)
\* coins.filter(coin => BigInt(coin.balance) > 0n)
PositiveCoins(coins) ==
    IF coins = <<>> THEN <<>>
    ELSE IF Head(coins).balance > 0
         THEN <<Head(coins)>> \o PositiveCoins(Tail(coins))
         ELSE PositiveCoins(Tail(coins))

RECURSIVE InsertByBalance(_, _)
\* `coin` put behind every coin of the sorted list whose balance is not smaller
InsertByBalance(sorted, coin) ==
    IF sorted = <<>> THEN <<coin>>
    ELSE IF Head(sorted).balance >= coin.balance
         THEN <<Head(sorted)>> \o InsertByBalance(Tail(sorted), coin)
         ELSE <<coin>> \o sorted

RECURSIVE SortByBalanceDesc(_)
\* coins.sort(descending balance); Array.prototype.sort is stable
SortByBalanceDesc(coins) ==
    IF coins = <<>> THEN <<>>
    ELSE InsertByBalance(SortByBalanceDesc(SubSeq(coins, 1, Len(coins) - 1)), coins[Len(coins)])

RECURSIVE SumBalances(_)
SumBalances(coins) ==
    IF coins = <<>> THEN 0 ELSE Head(coins).balance + SumBalances(Tail(coins))

\* collectSpendableCoins on the answers of getBalance and getCoins
collectSpendableCoins(ans) ==
    LET coins == SortByBalanceDesc(PositiveCoins(ans.coins))
    IN  [coins |-> coins,
         totalBalance |-> IF ans.totalOk THEN ans.totalBalance ELSE SumBalances(coins)]

\* a conversion that hands every coin to the gas payment
coinsToObjectRefsAll(coins) == [i \in 1..Len(coins) |-> [objectId |-> coins[i].coinObjectId]]

\* coinsToObjectRefs: coins.slice(0, 32)
coinsToObjectRefs(coins) ==
    [i \in 1..(IF Len(coins) < MAX_GAS_COINS THEN Len(coins) ELSE MAX_GAS_COINS) |->
        [objectId |-> coins[i].coinObjectId]]

\* state.totalBalance >= minimumRequired && state.coins.length > 0
Sufficient(state, minimumRequired) ==
    state.totalBalance >= minimumRequired /\ Len(state.coins) > 0

\* a message chosen by comparing the balance with the amount plus the gas buffer
ShortfallMessageWithBuffer(state, transferAmountMist) ==
    IF transferAmountMist > 0 /\ state.totalBalance < transferAmountMist + GAS_BUFFER_MIST
    THEN "SUI amount still insufficient: top up the wallet and retry"
    ELSE "testnet faucet SUI has not arrived yet: wait and retry"

\* The source's gas messages are Korean sentences; the model carries each as an
\* English sentence of the same meaning.
\* the message ensureSuiForTransaction throws after the faucet did not help
ShortfallMessage(state, transferAmountMist) ==
    IF transferAmountMist > 0 /\ state.totalBalance < transferAmountMist
    THEN "SUI amount still insufficient: top up the wallet and retry"
    ELSE "testnet faucet SUI has not arrived yet: wait and retry"

\* the message it throws off testnet
NoFaucetMessage(state, transferAmountMist) ==
    IF transferAmountMist > 0 /\ state.totalBalance < transferAmountMist
    THEN "SUI amount to send exceeds the account balance"
    ELSE "SUI balance too low to pay the transaction fee"

\* a check that lets through an amount of zero or less
BuildErrorAnyAmount(payload) ==
    CASE payload.kind = "transfer-sui" ->
            IF ~payload.amount.isNumber \/ payload.recipient = ""
            THEN "Transfer SUI requires a recipient and numeric amount."
            ELSE ""
      [] payload.kind = "custom" ->
            IF payload.bytes = "" THEN "Custom transaction requires bytes." ELSE ""
      [] OTHER -> "Unsupported transaction kind"

\* the error buildTransaction throws for a payload, "" when it builds
BuildError(payload) ==
    CASE payload.kind = "transfer-sui" ->
            IF ~payload.amount.isNumber \/ payload.recipient = ""
            THEN "Transfer SUI requires a recipient and numeric amount."
            ELSE IF toMist(payload.amount) <= 0
                 THEN "Transfer amount must be greater than zero."
                 ELSE ""
      [] payload.kind = "custom" ->
            IF payload.bytes = "" THEN "Custom transaction requires bytes." ELSE ""
      [] OTHER -> "Unsupported transaction kind"

\* the transaction buildTransaction returns
BuiltTransaction(sender, payload) ==
    IF payload.kind = "transfer-sui"
    THEN [sender |-> sender, splitFromGas |-> toMist(payload.amount),
          transferTo |-> payload.recipient]
    ELSE [bytes |-> payload.bytes]

\* a lookup that takes the first session, whatever its address
FindAnySession(sessions, address) == IF sessions = <<>> THEN 0 ELSE 1

\* sessions.find(item => item.address === address): the index, 0 when there is none
FindSession(sessions, address) ==
    IF \E i \in 1..Len(sessions) : sessions[i].address = address
    THEN CHOOSE i \in 1..Len(sessions) :
            /\ sessions[i].address = address
            /\ \A j \in 1..(i - 1) : sessions[j].address # address
    ELSE 0

NO_SESSION == "No active session for this address. Ask the user to log in again."

FAUCET_FAILED == "testnet faucet request failed: retry later or top up the gas by hand"

\* collectSpendableCoins called by function `by`: getBalance and getCoins go out together
CollectCalls(by) == <<[op |-> "getBalance", by |-> by], [op |-> "getCoins", by |-> by]>>
\* requestSuiFromFaucetV2 resolved (ok) or rejected
Fauceted(ok) == [op |-> "fauceted", ok |-> ok]
\* collectSpendableCoins returned `state` to function `by`
Collected(by, state) ==
    [op |-> "collected", by |-> by, totalBalance |-> state.totalBalance,
     coins |-> Len(state.coins)]
\* ensureSuiForTransaction returned coinsToObjectRefs(state.coins), getCoins having
\* answered with the coins `page`
GasCoins(state, page) ==
    [op |-> "gasCoins", refs |-> coinsToObjectRefs(state.coins), page |-> page]

\* ------------------------------------------------------------ signAndExecute
StartSign(p, address, payload) ==
    /\ Receive(p, "SIGN_AND_EXECUTE")
    /\ Goto(p, "lookup", [address |-> address, payload |-> payload],
            <<[op |-> "storage.session.get"]>>)
    /\ UNCHANGED <<probe, store, overlay, userConfig, cachedDefaults, bundle, hook, dirty,
                   now, entropy>>

\* getSessionOrThrow ends; executeTransactionWithSession starts ensureSuiForTransaction,
\* which asks for the balance and the coins
SignLookup(p, ok) ==
    /\ kind[p] = "SIGN_AND_EXECUTE" /\ pc[p] = "lookup"
    /\ IF ~ok THEN Fail(p, "storage.session.get failed")
       ELSE LET i == FindSession(store, loc[p].address)
            IN  IF i = 0 THEN Fail(p, NO_SESSION)
                ELSE IF ToMistThrows(loc[p].payload) THEN Fail(p, NOT_AN_INTEGER)
                ELSE LET transferAmountMist == TransferAmountMist(loc[p].payload)
                         minimumRequired == MinimumRequired(transferAmountMist)
                     IN  Goto(p, "collectFirst",
                              [session |-> store[i], payload |-> loc[p].payload,
                               transferAmountMist |-> transferAmountMist,
                               minimumRequired |-> minimumRequired],
                              <<[op |-> "ensureSuiForTransaction",
                                 transferAmountMist |-> transferAmountMist,
                                 minimumRequired |-> minimumRequired]>>
                              \o CollectCalls("ensureSuiForTransaction"))
    /\ UNCHANGED <<probe, store, overlay, userConfig, cachedDefaults, bundle, kind, hook, dirty,
                   now, entropy, nreq>>

\* a variant that signs the transaction before the gas payment is attached
SignBeforeGasPayment(p, state, ans) ==
    LET error == BuildError(loc[p].payload)
        gasPayment == coinsToObjectRefs(state.coins)
        collected == <<Collected("ensureSuiForTransaction", state), GasCoins(state, ans.coins)>>
    IN  IF error # "" THEN Respond(p, ErrorResponse(kind[p], error), collected)
        ELSE Goto(p, "sign",
                  [session |-> loc[p].session, gasPayment |-> gasPayment],
                  collected \o
                  <<[op |-> "buildTransaction",
                     tx |-> BuiltTransaction(loc[p].session.address, loc[p].payload)],
                    [op |-> "tx.sign", signer |-> loc[p].session.ephemeralPrivateKey],
                    [op |-> "setGasPayment", gasPayment |-> gasPayment]>>)

\* ensureSuiForTransaction returns the coins of `state`: the transaction is built, the gas
\* payment attached and tx.sign called
BuildAndSign(p, state, ans) ==
    LET error == BuildError(loc[p].payload)
        gasPayment == coinsToObjectRefs(state.coins)
        collected == <<Collected("ensureSuiForTransaction", state), GasCoins(state, ans.coins)>>
    IN  IF error # "" THEN Respond(p, ErrorResponse(kind[p], error), collected)
        ELSE Goto(p, "sign",
                  [session |-> loc[p].session, gasPayment |-> gasPayment],
                  collected \o
                  <<[op |-> "buildTransaction",
                     tx |-> BuiltTransaction(loc[p].session.address, loc[p].payload)]>>
                  \o (IF Len(gasPayment) > 0
                      THEN <<[op |-> "setGasPayment", gasPayment |-> gasPayment]>> ELSE <<>>)
                  \o <<[op |-> "tx.sign", signer |-> loc[p].session.ephemeralPrivateKey]>>)

\* the first collectSpendableCoins ends
SignCollectFirst(p, ans) ==
    /\ kind[p] = "SIGN_AND_EXECUTE" /\ pc[p] = "collectFirst"
    /\ IF ~ans.ok THEN Fail(p, "RPC failed")
       ELSE LET state == collectSpendableCoins(ans)
                collected == <<Collected("ensureSuiForTransaction", state)>>
            IN  IF Sufficient(state, loc[p].minimumRequired) THEN BuildAndSign(p, state, ans)
                ELSE IF ~IS_TESTNET
                     THEN Respond(p, ErrorResponse(kind[p],
                                                   NoFaucetMessage(state, loc[p].transferAmountMist)),
                                  collected)
                ELSE Goto(p, "faucet", loc[p] @@ [state |-> state],
                          collected \o <<[op |-> "requestSuiFromFaucetV2"]>>)
    /\ UNCHANGED <<probe, store, overlay, userConfig, cachedDefaults, bundle, kind, hook, dirty,
                   now, entropy, nreq>>

\* a provisioner that polls even though the faucet request failed
SignFaucetIgnoringFailure(p, ok) ==
    /\ kind[p] = "SIGN_AND_EXECUTE" /\ pc[p] = "faucet"
    /\ Goto(p, "sleep", loc[p] @@ [attempt |-> 1],
            <<Fauceted(ok), [op |-> "sleep", ms |-> FAUCET_RETRY_DELAYS_MS[1]]>>)
    /\ UNCHANGED <<probe, store, overlay, userConfig, cachedDefaults, bundle, kind, hook, dirty,
                   now, entropy, nreq>>

\* requestSuiFromFaucetV2 ends; on success the first delay starts
SignFaucet(p, ok) ==
    /\ kind[p] = "SIGN_AND_EXECUTE" /\ pc[p] = "faucet"
    /\ IF ~ok THEN Respond(p, ErrorResponse(kind[p], FAUCET_FAILED), <<Fauceted(FALSE)>>)
       ELSE Goto(p, "sleep", loc[p] @@ [attempt |-> 1],
                 <<Fauceted(TRUE), [op |-> "sleep", ms |-> FAUCET_RETRY_DELAYS_MS[1]]>>)
    /\ UNCHANGED <<probe, store, overlay, userConfig, cachedDefaults, bundle, kind, hook, dirty,
                   now, entropy, nreq>>

\* the delay is over: the balance is asked for again
SignSleep(p) ==
    /\ kind[p] = "SIGN_AND_EXECUTE" /\ pc[p] = "sleep"
    /\ Goto(p, "poll", loc[p], CollectCalls("requestFaucetAndWait"))
    /\ UNCHANGED <<probe, store, overlay, userConfig, cachedDefaults, bundle, kind, hook, dirty,
                   now, entropy, nreq>>

\* a poll that goes on until the balance read covers the minimum
SignPollUntilSufficient(p, ans) ==
    /\ kind[p] = "SIGN_AND_EXECUTE" /\ pc[p] = "poll"
    /\ IF ~ans.ok THEN Fail(p, "RPC failed")
       ELSE LET state == collectSpendableCoins(ans)
                collected == <<Collected("requestFaucetAndWait", state)>>
            IN  IF Sufficient(state, loc[p].minimumRequired)
                   \/ loc[p].attempt = Len(FAUCET_RETRY_DELAYS_MS)
                THEN Goto(p, "collectLast", loc[p],
                          collected \o CollectCalls("ensureSuiForTransaction"))
                ELSE Goto(p, "sleep", [loc[p] EXCEPT !.attempt = @ + 1],
                          collected \o
                          <<[op |-> "sleep", ms |-> FAUCET_RETRY_DELAYS_MS[loc[p].attempt + 1]]>>)
    /\ UNCHANGED <<probe, store, overlay, userConfig, cachedDefaults, bundle, kind, hook, dirty,
                   now, entropy, nreq>>

\* a poll of requestFaucetAndWait ends: it returns when a coin is there or the delays
\* are used up (and ensureSuiForTransaction reads the balance once more), else it sleeps
SignPoll(p, ans) ==
    /\ kind[p] = "SIGN_AND_EXECUTE" /\ pc[p] = "poll"
    /\ IF ~ans.ok THEN Fail(p, "RPC failed")
       ELSE LET state == collectSpendableCoins(ans)
                collected == <<Collected("requestFaucetAndWait", state)>>
            IN  IF Len(state.coins) > 0 \/ loc[p].attempt = Len(FAUCET_RETRY_DELAYS_MS)
                THEN Goto(p, "collectLast", loc[p],
                          collected \o CollectCalls("ensureSuiForTransaction"))
                ELSE Goto(p, "sleep", [loc[p] EXCEPT !.attempt = @ + 1],
                          collected \o
                          <<[op |-> "sleep", ms |-> FAUCET_RETRY_DELAYS_MS[loc[p].attempt + 1]]>>)
    /\ UNCHANGED <<probe, store, overlay, userConfig, cachedDefaults, bundle, kind, hook, dirty,
                   now, entropy, nreq>>

\* the collectSpendableCoins after requestFaucetAndWait ends
SignCollectLast(p, ans) ==
    /\ kind[p] = "SIGN_AND_EXECUTE" /\ pc[p] = "collectLast"
    /\ IF ~ans.ok THEN Fail(p, "RPC failed")
       ELSE LET state == collectSpendableCoins(ans)
            IN  IF Sufficient(state, loc[p].minimumRequired) THEN BuildAndSign(p, state, ans)
                ELSE Respond(p, ErrorResponse(kind[p],
                                              ShortfallMessage(state, loc[p].transferAmountMist)),
                             <<Collected("ensureSuiForTransaction", state)>>)
    /\ UNCHANGED <<probe, store, overlay, userConfig, cachedDefaults, bundle, kind, hook, dirty,
                   now, entropy, nreq>>

\* getZkLoginSignature's inputs: the stored proof, its address seed (recomputed when the
\* proof has none), maxEpoch and the user signature
ZkLoginSignature(session, userSignature) ==
    [inputs |-> session.proof, maxEpoch |-> session.maxEpoch,
     userSignature |-> [signedBy |-> userSignature]]

\* tx.sign ends: the zkLogin signature is put together and the transaction submitted
SignSigned(p, ok) ==
    /\ kind[p] = "SIGN_AND_EXECUTE" /\ pc[p] = "sign"
    /\ IF ~ok THEN Fail(p, "tx.sign failed")
       ELSE Goto(p, "execute", loc[p],
                 <<[op |-> "executeTransactionBlock",
                    signature |-> ZkLoginSignature(loc[p].session,
                                                   loc[p].session.ephemeralPrivateKey)]>>)
    /\ UNCHANGED <<probe, store, overlay, userConfig, cachedDefaults, bundle, kind, hook, dirty,
                   now, entropy, nreq>>

\* executeTransactionBlock ends
SignExecuted(p, ok) ==
    /\ kind[p] = "SIGN_AND_EXECUTE" /\ pc[p] = "execute"
    /\ IF ~ok THEN Fail(p, "executeTransactionBlock failed")
       ELSE Respond(p, [type |-> "SIGN_AND_EXECUTE", ok |-> TRUE, data |-> [digest |-> "digest"]],
                    <<>>)
    /\ UNCHANGED <<probe, store, overlay, userConfig, cachedDefaults, bundle, kind, hook, dirty,
                   now, entropy, nreq>>

\* ------------------------------------------------------- signPersonalMessage
StartSignMessage(p, address) ==
    /\ Receive(p, "SIGN_PERSONAL_MESSAGE")
    /\ Goto(p, "lookup", [address |-> address], <<[op |-> "storage.session.get"]>>)
    /\ UNCHANGED <<probe, store, overlay, userConfig, cachedDefaults, bundle, hook, dirty,
                   now, entropy>>

\* getSessionOrThrow ends; keypair.signPersonalMessage is called
SignMessageLookup(p, ok) ==
    /\ kind[p] = "SIGN_PERSONAL_MESSAGE" /\ pc[p] = "lookup"
    /\ IF ~ok THEN Fail(p, "storage.session.get failed")
       ELSE LET i == FindSession(store, loc[p].address)
            IN  IF i = 0 THEN Fail(p, NO_SESSION)
                ELSE Goto(p, "sign", [session |-> store[i]],
                          <<[op |-> "signPersonalMessage",
                             signer |-> store[i].ephemeralPrivateKey]>>)
    /\ UNCHANGED <<probe, store, overlay, userConfig, cachedDefaults, bundle, kind, hook, dirty,
                   now, entropy, nreq>>

\* a signing that writes the session back with the address seed it recomputed, putting
\* it last in the list
SignMessageSignedWritingBack(p) ==
    /\ kind[p] = "SIGN_PERSONAL_MESSAGE" /\ pc[p] = "sign"
    /\ store' = SeqFilterAddr(store, loc[p].session.address)
                    \o <<[loc[p].session EXCEPT !.proof.addressSeed =
                              [text |-> genAddressSeed(loc[p].session.salt, "sub",
                                                       loc[p].session.sub, loc[p].session.aud),
                               numeric |-> TRUE]]>>
    /\ Respond(p, [type |-> "SIGN_PERSONAL_MESSAGE", ok |-> TRUE,
                   data |-> [signature |-> ZkLoginSignature(loc[p].session,
                                                           loc[p].session.ephemeralPrivateKey)]],
               <<>>)
    /\ UNCHANGED <<probe, overlay, userConfig, cachedDefaults, bundle, kind, hook, dirty,
                   now, entropy, nreq>>

\* keypair.signPersonalMessage ends: the zkLogin signature is returned
SignMessageSigned(p) ==
    /\ kind[p] = "SIGN_PERSONAL_MESSAGE" /\ pc[p] = "sign"
    /\ Respond(p, [type |-> "SIGN_PERSONAL_MESSAGE", ok |-> TRUE,
                   data |-> [signature |-> ZkLoginSignature(loc[p].session,
                                                           loc[p].session.ephemeralPrivateKey)]],
               <<>>)
    /\ UNCHANGED <<probe, store, overlay, userConfig, cachedDefaults, bundle, kind, hook, dirty,
                   now, entropy, nreq>>

\* ------------------------------------------------------ fetchAccountOverview
\* FETCH_ACCOUNT_OVERVIEW arrives: buildAccountOverview sends its five queries together
StartOverview(p, address) ==
    /\ Receive(p, "FETCH_ACCOUNT_OVERVIEW")
    /\ Goto(p, "overview", [address |-> address],
            <<[op |-> "getBalance", by |-> "buildAccountOverview"],
              [op |-> "getAllBalances"], [op |-> "getOwnedObjects"],
              [op |-> "queryTransactionBlocks", filter |-> "ToAddress"],
              [op |-> "queryTransactionBlocks", filter |-> "FromAddress"]>>)
    /\ UNCHANGED <<probe, store, overlay, userConfig, cachedDefaults, bundle, hook, dirty,
                   now, entropy>>

\* Number(suiBalance.totalBalance) / 1e9, in MIST; NaN when totalBalance is no number
SuiBalance(ans) == [nan |-> ~ans.totalOk, mist |-> IF ans.totalOk THEN ans.totalBalance ELSE 0]

\* Promise.all ends: the overview is put together from the chain's answers
OverviewDone(p, ans) ==
    /\ kind[p] = "FETCH_ACCOUNT_OVERVIEW" /\ pc[p] = "overview"
    /\ IF ~ans.ok THEN Fail(p, "RPC failed")
       ELSE Respond(p, [type |-> "FETCH_ACCOUNT_OVERVIEW", ok |-> TRUE,
                        data |-> [overview |-> [address |-> loc[p].address,
                                                suiBalance |-> SuiBalance(ans)]]], <<>>)
    /\ UNCHANGED <<probe, store, overlay, userConfig, cachedDefaults, bundle, kind, hook, dirty,
                   now, entropy, nreq>>

\* ------------------------------------------------------------ uploadNftImage
\* UPLOAD_NFT_IMAGE arrives: loadConfig and getSessionOrThrow start together.  When one
\* of the two rejects, uploadNftImage answers at once; what the other would still do
\* (fill the defaults cache, save a sanitized config) is left to the next loadConfig.
StartUpload(p, address) ==
    /\ Receive(p, "UPLOAD_NFT_IMAGE")
    /\ Goto(p, "loadConfig",
            [defaults |-> IF cachedDefaults # <<>> THEN cachedDefaults ELSE Pending,
             stored |-> Pending, address |-> address, session |-> Pending],
            (IF cachedDefaults # <<>> THEN <<>> ELSE <<[op |-> "fetch:config.json"]>>)
                \o <<[op |-> "storage.local.get"], [op |-> "storage.session.get"]>>)
    /\ UNCHANGED <<probe, store, overlay, userConfig, cachedDefaults, bundle, hook, dirty,
                   now, entropy>>

\* getSessionOrThrow ends, before or after loadConfig
UploadSession(p, ok) ==
    /\ kind[p] = "UPLOAD_NFT_IMAGE" /\ pc[p] \in {"loadConfig", "saveSanitized", "session"}
    /\ loc[p].session = Pending
    /\ IF ~ok THEN Fail(p, "storage.session.get failed")
       ELSE LET i == FindSession(store, loc[p].address)
            IN  IF i = 0 THEN Fail(p, NO_SESSION)
                ELSE IF pc[p] = "session" THEN UploadProceed(p, loc[p].config, store[i])
                ELSE Goto(p, pc[p], [loc[p] EXCEPT !.session = store[i]], <<>>)
    /\ UNCHANGED <<probe, store, overlay, userConfig, cachedDefaults, bundle, kind, hook, dirty,
                   now, entropy, nreq>>

\* ensurePngBlob ends (it never throws): the image is POSTed to the endpoint
UploadBlob(p) ==
    /\ kind[p] = "UPLOAD_NFT_IMAGE" /\ pc[p] = "blob"
    /\ Goto(p, "upload", loc[p],
            <<[op |-> "fetch", service |-> "upload", method |-> "POST",
               url |-> loc[p].endpoint, contentType |-> "image/png"]>>)
    /\ UNCHANGED <<probe, store, overlay, userConfig, cachedDefaults, bundle, kind, hook, dirty,
                   now, entropy, nreq>>

\* the data of the success response for an upload answer: messageText is the body's
\* message, else its url, else the non-empty text; result is the parsed body or the text
UploadData(body) ==
    [status |-> "ok"]
        @@ (IF body.message # "" THEN [message |-> body.message] ELSE <<>>)
        @@ [result |-> body.result]

\* the upload's fetch ends
UploadDone(p, ans) ==
    /\ kind[p] = "UPLOAD_NFT_IMAGE" /\ pc[p] = "upload"
    /\ IF ~ans.ok THEN Fail(p, "Failed to fetch")
       ELSE IF ~ans.httpOk THEN Fail(p, "Upload failed (HTTP)")
       ELSE Respond(p, [type |-> "UPLOAD_NFT_IMAGE", ok |-> TRUE, data |-> UploadData(ans.body)],
                    <<>>)
    /\ UNCHANGED <<probe, store, overlay, userConfig, cachedDefaults, bundle, kind, hook, dirty,
                   now, entropy, nreq>>

\* ------------------------------------------------- a message of no known type
\* handleMessage's default case throws and the listener's .catch answers
StartUnknown(p) ==
    /\ Receive(p, "UNKNOWN_TYPE")
    /\ Respond(p, ErrorResponse("UNKNOWN_TYPE", "Unhandled message type"), <<>>)
    /\ UNCHANGED <<probe, store, overlay, userConfig, cachedDefaults, bundle, hook, dirty,
                   now, entropy>>

\* ---------------------------------------------- fetchZkProof put to the probe
\* the body {data: raw}
Wrap(raw) == [isObject |-> TRUE, fields |-> [data |-> raw]]

\* fetchZkProof parses the probe's body as the prover sent it
ProbeBare ==
    /\ ~probe.bareDone
    /\ probe' = [probe EXCEPT !.bareDone = TRUE, !.bare = fetchZkProofParse(probe.raw)]
    /\ UNCHANGED <<store, overlay, userConfig, cachedDefaults, bundle, kind, pc, loc, resp,
                   calls, hook, dirty, now, entropy, nreq>>

\* fetchZkProof parses the probe's body nested under `data`
ProbeWrapped ==
    /\ ~probe.wrappedDone
    /\ probe' = [probe EXCEPT !.wrappedDone = TRUE,
                              !.wrapped = fetchZkProofParse(Wrap(probe.raw))]
    /\ UNCHANGED <<store, overlay, userConfig, cachedDefaults, bundle, kind, pc, loc, resp,
                   calls, hook, dirty, now, entropy, nreq>>

\* ------------------------------------------------- the collaborators' answers
\* A world is the set of answers the collaborators may give.
\*   Honest:  no operation fails and every answer is well formed
\*   Faulty:  every awaited operation may fail
\*   Hostile: as Faulty, and the OAuth window, the salt service and the prover also
\*            send every malformed answer
\*   Scarce:  storage is reliable; the chain reports every kind of balance, and the
\*            faucet, the signer and the submission may fail
\*   Rich:    as Scarce, with fewer kinds of balance and with a page of forty coins
Honest == "honest"
Faulty == "faulty"
Hostile == "hostile"
Scarce == "scarce"
Rich == "rich"

\* outcomes of a chrome.storage operation, and of any other awaited operation
StorageOks(w) == IF w \in {Honest, Scarce, Rich} THEN {TRUE} ELSE BOOLEAN
Oks(w) == IF w = Honest THEN {TRUE} ELSE BOOLEAN

\* what the salt service holds for each Twitch user
SaltOf(sub) == CASE sub = "u1" -> 42 [] sub = "u2" -> 7 [] OTHER -> 26

\* the largest magnitude of a salt the hostile salt service sends
MaxSalt == 27

\* a well-formed answer of the prover for the login with locals l
HonestProof(l) ==
    [isObject |-> TRUE,
     fields |-> [proofPoints |-> l.keyId, issBase64Details |-> 1, headerBase64 |-> 1,
                 addressSeed |-> [t |-> "string",
                                  seed |-> genAddressSeed(l.saltBigInt, "sub", l.sub, l.audience)]]]
NotObject == [isObject |-> FALSE, fields |-> <<>>]
\* `raw` without field k, and with field k set to v
Without(raw, k) == [raw EXCEPT !.fields = [x \in DOMAIN raw.fields \ {k} |-> raw.fields[x]]]
With(raw, k, v) == [raw EXCEPT !.fields = (k :> v) @@ raw.fields]

Closed == [lastError |-> "The user did not approve access.", url |-> NoUrl]
Redirect(url) == [lastError |-> "", url |-> url]
Token(t) == Redirect(Url(TRUE, [id_token |-> t]))

EpochAnswers(w) ==
    CASE w = Honest -> {[ok |-> TRUE, epoch |-> 10]}
      [] w = Hostile -> {[ok |-> TRUE, epoch |-> 10], [ok |-> TRUE, epoch |-> 11], [ok |-> FALSE]}
      [] OTHER -> {[ok |-> TRUE, epoch |-> 10], [ok |-> FALSE]}

OAuthAnswers(w) ==
    CASE w = Honest -> {Token(t) : t \in {"jwt.u1", "jwt.u2", "jwt.u3"}}
      [] w = Hostile ->
            {Closed, Redirect(NoUrl), Redirect(Url(FALSE, <<>>)),
             Redirect(Url(TRUE, [error |-> "access_denied"]))}
                \cup {Token(t) : t \in {"garbage", "jwt.nosub", "jwt.noaud", "jwt.noiss",
                                        "jwt.arr", "jwt.arr0", "jwt.arrE", "jwt.u1", "jwt.u2"}}
      [] OTHER -> {Closed, Token("jwt.u1"), Token("jwt.u2")}

SaltAnswers(l, w) ==
    CASE w = Honest -> {[ok |-> TRUE, salt |-> JDec(SaltOf(l.sub))]}
      [] w = Hostile ->
            {[ok |-> FALSE, salt |-> JAbsent]}
                \cup {[ok |-> TRUE, salt |-> v] : v \in {JAbsent, JEmpty, JText, JNum(5)}}
                \cup {[ok |-> TRUE, salt |-> JDec(n)] : n \in (0 - MaxSalt)..MaxSalt}
      [] OTHER -> {[ok |-> TRUE, salt |-> JDec(SaltOf(l.sub))], [ok |-> FALSE, salt |-> JAbsent]}

ProverAnswers(l, w) ==
    CASE w = Honest -> {[ok |-> TRUE, raw |-> HonestProof(l)]}
      [] w = Hostile ->
            {[ok |-> FALSE]}
                \cup {[ok |-> TRUE, raw |-> r] :
                        r \in {HonestProof(l), Wrap(HonestProof(l)), NotObject,
                               Without(HonestProof(l), "headerBase64"),
                               Without(HonestProof(l), "addressSeed"),
                               With(HonestProof(l), "addressSeed", [t |-> "text", seed |-> <<>>]),
                               With(HonestProof(l), "addressSeed", [t |-> "empty", seed |-> <<>>]),
                               With(HonestProof(l), "addressSeed",
                                    [t |-> "string",
                                     seed |-> genAddressSeed(1, "sub", "u9", "clientZ")])}}
      [] OTHER -> {[ok |-> TRUE, raw |-> HonestProof(l)], [ok |-> FALSE]}

\* the registration fetch answers 2xx, answers another status, or fails in transport
WebhookOutcomes(w) ==
    IF w = Honest THEN {"registered"} ELSE {"registered", "rejected", "failed"}

\* the chain's answers to buildAccountOverview: a balance, a balance that is no number,
\* a failed query
OverviewAnswers(w) ==
    {[ok |-> TRUE, totalOk |-> TRUE, totalBalance |-> 2000000000]}
        \cup (IF w = Honest THEN {}
              ELSE {[ok |-> FALSE], [ok |-> TRUE, totalOk |-> FALSE, totalBalance |-> 0]})

\* the upload endpoint's answers: a JSON body with a message or a url, a text, nothing
UploadBody(message, result) == [message |-> message, result |-> result]
UploadAnswers(w) ==
    {[ok |-> TRUE, httpOk |-> TRUE, body |-> UploadBody("stored", "json:message")]}
        \cup (IF w = Honest THEN {}
              ELSE {[ok |-> FALSE], [ok |-> TRUE, httpOk |-> FALSE],
                    [ok |-> TRUE, httpOk |-> TRUE, body |-> UploadBody("https://blob/1", "json:url")],
                    [ok |-> TRUE, httpOk |-> TRUE, body |-> UploadBody("", "")]})

\* config.json as packaged: missing, with a client id only, or with the backend's URLs too
NoBundle == [ok |-> FALSE, data |-> <<>>]
PlainBundle == [ok |-> TRUE, data |-> [twitchClientId |-> "cid"]]
BackendBundle ==
    [ok |-> TRUE, data |-> [twitchClientId |-> "cid", saltServiceUrl |-> "https://api.example/salts",
                            backendRegistrationUrl |-> "https://api.example/register"]]
BareBundle == [ok |-> TRUE, data |-> [twitchClientId |-> "cid", nftUploadUrl |-> " "]]
Bundles == {NoBundle, PlainBundle, BackendBundle, BareBundle}
\* a config.json that names a prover by a relative URL, and one that names a salt
\* service of the older kind
LocalBundle == [ok |-> TRUE, data |-> [twitchClientId |-> "cid", zkProverUrl |-> "prover.local/v1"]]
LegacyBundle ==
    [ok |-> TRUE, data |-> [twitchClientId |-> "cid", saltServiceUrl |-> "https://salt.example/get"]]

\* the configs the options page saves
SavedConfigs ==
    {[twitchClientId |-> "mine"],
     [twitchClientId |-> "", zkProverUrl |-> "prover.local/v1"],
     [saltServiceUrl |-> "https://api.example/SALTS"],
     [BASE_DEFAULT_CONFIG EXCEPT !.twitchClientId = "mine",
                                 !.saltServiceUrl = "https://api.example/salts/"]}

Coin(id, balance) == [coinObjectId |-> id, balance |-> balance]
\* the answers of getBalance and getCoins; totalOk: totalBalance parses as a BigInt
Chain(totalBalance, coins) ==
    [ok |-> TRUE, totalOk |-> TRUE, totalBalance |-> totalBalance, coins |-> coins]
RpcFailure == [ok |-> FALSE]
\* a page of getCoins (limit: 50) with more positive coins than a gas payment takes,
\* in no order, with equal balances and with empty coins among them
PageSize == 40
ManyCoins ==
    [i \in 1..PageSize |->
        Coin("k" \o ToString(i),
             IF i % 7 = 0 THEN 0 ELSE (((i * 3) % 11) + 1) * 1000000)]
\* a page of forty small coins: the account holds 60,000,000 MIST in all, the
\* thirty-two largest coins hold 48,000,000
DustCoins == [i \in 1..PageSize |-> Coin("d" \o ToString(i), 1500000)]
ChainAnswers(w) ==
    {RpcFailure, Chain(0, <<>>), Chain(100000000, <<Coin("c1", 100000000)>>)}
        \cup (IF w \notin {Scarce, Rich} THEN {}
              ELSE {Chain(100000000, <<Coin("c0", 0)>>),
                    Chain(100000000, <<Coin("c1", 30000000), Coin("c0", 0), Coin("c2", 70000000)>>)})
        \cup (IF w # Scarce THEN {}
              ELSE {Chain(100000000, <<>>),
                    Chain(60000000, <<Coin("c1", 60000000)>>),
                    Chain(10000000, <<Coin("c1", 10000000)>>),
                    [ok |-> TRUE, totalOk |-> FALSE, totalBalance |-> 0,
                     coins |-> <<Coin("c1", 40000000), Coin("c2", 40000000)>>]})
        \cup (IF w # Rich THEN {}
              ELSE {Chain(SumBalances(ManyCoins), ManyCoins),
                    Chain(SumBalances(DustCoins), DustCoins)})

Transfer(amount, recipient) ==
    [kind |-> "transfer-sui", amount |-> amount, recipient |-> recipient, bytes |-> ""]
Custom(bytes) == [kind |-> "custom", amount |-> NoAmount, recipient |-> "", bytes |-> bytes]
Payloads(w) ==
    {Transfer(Sui(40000000), "0xrecipient")}
        \cup (IF w \notin {Scarce, Rich} THEN {}
              ELSE {Custom("bytes"), Transfer(Sui(1), "0xrecipient"), Transfer(NoAmount, "")})
        \cup (IF w # Rich THEN {}
              ELSE {Custom(""), Transfer(Sui(40000000), ""), Transfer(NoAmount, "0xrecipient"),
                    Transfer(Sui(0 - 40000000), "0xrecipient"),
                    Transfer(Sui(0 - 1), "0xrecipient"),
                    Transfer(NotFinite, "0xrecipient"),
                    Transfer(Sui(40000001), "0xrecipient")})

\* the addresses the honest collaborators lead to
AddressOf(token) == jwtToAddress(token, normalizeToField(SaltOf(jwtDecode(token).sub)))
Addresses == {AddressOf("jwt.u1"), AddressOf("jwt.u2")}
AllAddresses == Addresses \cup {AddressOf("jwt.u3")}

\* the prover response bodies put to the probe: each proof field absent, falsy or
\* set, every kind of addressSeed, and `data` absent, no object, or a nested body
Opt(k, values) == {<<>>} \cup {k :> v : v \in values}
SeedFields(n) ==
    Opt("addressSeed", {[t |-> "string", seed |-> n], [t |-> "number", seed |-> n],
                        [t |-> "text", seed |-> n], [t |-> "empty", seed |-> n],
                        [t |-> "other", seed |-> n]})
NestedBodies ==
    {[isObject |-> TRUE, fields |-> a @@ b @@ c @@ d] :
        a \in Opt("proofPoints", {2}), b \in Opt("issBase64Details", {2}),
        c \in Opt("headerBase64", {0, 2}),
        d \in Opt("addressSeed", {[t |-> "string", seed |-> 2]})}
ProbeBodies ==
    {NotObject} \cup
    {[isObject |-> TRUE, fields |-> a @@ b @@ c @@ d @@ e] :
        a \in Opt("proofPoints", {0, 1}), b \in Opt("issBase64Details", {0, 1}),
        c \in Opt("headerBase64", {0, 1}), d \in SeedFields(1),
        e \in Opt("data", {NotObject} \cup NestedBodies)}

\* -------------------------------------------------------- the specifications
\* the state after the worker's construction, but for the packaged config.json
Quiescent ==
    /\ store = <<>>
    /\ overlay = "unset"
    /\ userConfig = <<>>
    /\ cachedDefaults = <<>>
    /\ kind = [p \in Procs |-> "idle"]
    /\ pc = [p \in Procs |-> "idle"]
    /\ loc = [p \in Procs |-> NoLoc]
    /\ resp = [p \in Procs |-> NoResp]
    /\ calls = [p \in Procs |-> <<>>]
    /\ hook = [p \in Procs |-> "none"]
    /\ dirty = [p \in Procs |-> FALSE]
    /\ now = 0
    /\ entropy = 0
    /\ nreq = 0

Init == Quiescent /\ bundle \in Bundles /\ probe = NoProbe
InitBackend == Quiescent /\ bundle = BackendBundle /\ probe = NoProbe

LoginStep(p, w) ==
    \/ LoadConfigFetched(p)
    \/ \E ok \in StorageOks(w) : LoadConfigStored(p, ok)
    \/ \E ok \in StorageOks(w) : LoadConfigSaved(p, ok)
    \/ \E ans \in EpochAnswers(w) : LoginEpoch(p, ans)
    \/ \E ans \in OAuthAnswers(w) : LoginOAuth(p, ans)
    \/ pc[p] = "salt" /\ \E ans \in SaltAnswers(loc[p], w) : LoginSalt(p, ans)
    \/ pc[p] = "proof" /\ \E ans \in ProverAnswers(loc[p], w), rejects \in BOOLEAN :
                            LoginProof(p, ans, rejects)
    \/ \E ok \in StorageOks(w) : LoginRead(p, ok)
    \/ \E ok \in StorageOks(w) : LoginWrite(p, ok)
    \/ \E outcome \in WebhookOutcomes(w) : WebhookDone(p, outcome)

LogoutStep(p, w) ==
    \/ \E ok \in StorageOks(w) : LogoutRead(p, ok)
    \/ \E ok \in StorageOks(w) : LogoutWrite(p, ok)

GetStateStep(p, w) ==
    \/ \E ok \in StorageOks(w) : GetStateSessions(p, ok)
    \/ \E ok \in StorageOks(w) : GetStateOverlay(p, ok)

SignStep(p, w) ==
    \/ \E ok \in StorageOks(w) : SignLookup(p, ok)
    \/ \E ans \in ChainAnswers(w) : SignCollectFirst(p, ans)
    \/ \E ok \in Oks(w) : SignFaucet(p, ok)
    \/ SignSleep(p)
    \/ \E ans \in ChainAnswers(w) : SignPoll(p, ans)
    \/ \E ans \in ChainAnswers(w) : SignCollectLast(p, ans)
    \/ \E ok \in Oks(w) : SignSigned(p, ok)
    \/ \E ok \in Oks(w) : SignExecuted(p, ok)

SignMessageStep(p, w) ==
    \/ \E ok \in StorageOks(w) : SignMessageLookup(p, ok)
    \/ SignMessageSigned(p)

\* Spec: two requests of any kind, in flight together in the slots 1 and 2, where
\* every awaited operation may fail
UploadStep(p, w) ==
    \/ \E ok \in StorageOks(w) : UploadSession(p, ok)
    \/ UploadBlob(p)
    \/ \E ans \in UploadAnswers(w) : UploadDone(p, ans)

OverviewStep(p, w) == \E ans \in OverviewAnswers(w) : OverviewDone(p, ans)

ConfigStep(p, w) == \E ok \in StorageOks(w) : SaveConfigDone(p, ok)

Slots == {1, 2}

Next ==
    \/ \E p \in Slots : StartLogin(p)
    \/ \E p \in Slots : LoginStep(p, Faulty)
    \/ \E p \in Slots, a \in Addresses : StartLogout(p, a)
    \/ \E p \in Slots : LogoutStep(p, Faulty)
    \/ \E p \in Slots : StartGetState(p)
    \/ \E p \in Slots : GetStateStep(p, Faulty)
    \/ \E p \in Slots, enabled \in BOOLEAN : StartSetOverlay(p, enabled)
    \/ \E p \in Slots, ok \in BOOLEAN : SetOverlayDone(p, ok)
    \/ \E p \in Slots, a \in Addresses, payload \in Payloads(Faulty) : StartSign(p, a, payload)
    \/ \E p \in Slots : SignStep(p, Faulty)
    \/ \E p \in Slots, a \in Addresses : StartSignMessage(p, a)
    \/ \E p \in Slots : SignMessageStep(p, Faulty)
    \/ ClearSessions

Spec == Init /\ [][Next]_vars

\* Every type of request, two in flight together, collaborators that may fail.
Arrives(p) ==
    \/ StartLogin(p)
    \/ \E a \in Addresses : StartLogout(p, a)
    \/ StartGetState(p)
    \/ \E enabled \in BOOLEAN : StartSetOverlay(p, enabled)
    \/ \E a \in Addresses, payload \in Payloads(Faulty) : StartSign(p, a, payload)
    \/ \E a \in Addresses : StartSignMessage(p, a)
    \/ StartGetConfig(p)
    \/ \E config \in SavedConfigs : StartSaveConfig(p, config)
    \/ \E a \in Addresses : StartOverview(p, a)
    \/ \E a \in Addresses : StartUpload(p, a)
    \/ StartUnknown(p)

\* the steps by which the task of request p goes on, and its webhook
Continues(p) ==
    \/ LoginStep(p, Faulty)
    \/ LogoutStep(p, Faulty)
    \/ GetStateStep(p, Faulty)
    \/ \E ok \in BOOLEAN : SetOverlayDone(p, ok)
    \/ SignStep(p, Faulty)
    \/ SignMessageStep(p, Faulty)
    \/ ConfigStep(p, Faulty)
    \/ OverviewStep(p, Faulty)
    \/ UploadStep(p, Faulty)

NextAll ==
    \/ \E p \in Slots : Arrives(p)
    \/ \E p \in Slots : Continues(p)
    \/ ClearSessions

SpecAll == Init /\ [][NextAll]_vars

\* Every collaborator call returns or fails: a task that can go on does go on.
SpecFair == SpecAll /\ \A p \in Slots : WF_vars(Continues(p))

\* request p starts once every earlier request, and its webhook, has ended
Quiet(p) == \A q \in Procs : q < p => pc[q] = "done" /\ hook[q] # "inflight"

\* SpecProver: one login against hostile collaborators, under each way config.json can
\* name the salt service and the prover
InitProver ==
    Quiescent /\ bundle \in {PlainBundle, BackendBundle, LocalBundle, LegacyBundle} /\ probe = NoProbe

NextProver == StartLogin(1) \/ LoginStep(1, Hostile)

SpecProver == InitProver /\ [][NextProver]_vars

\* SpecRace: two logins in flight together against collaborators that may fail, while
\* the network's epoch goes from 10 to 11; nothing else touches the store
NextRace ==
    \/ \E p \in Slots : StartLogin(p)
    \/ \E p \in Slots : LoginStep(p, Faulty)
    \/ \E p \in Slots : LoginEpoch(p, [ok |-> TRUE, epoch |-> 11])

SpecRace == Init /\ [][NextRace]_vars

\* SpecSeq: logins and logouts served one after the other by honest collaborators,
\* request p in slot p
NextSeq ==
    \/ \E p \in Procs : Quiet(p) /\ StartLogin(p)
    \/ \E p \in Procs : LoginStep(p, Honest)
    \/ \E p \in Procs, a \in AllAddresses : Quiet(p) /\ StartLogout(p, a)
    \/ \E p \in Procs : LogoutStep(p, Honest)

SpecSeq == InitBackend /\ [][NextSeq]_vars

\* SpecLogout: logins, logouts and requests to sign served one after the other by
\* honest collaborators
NextLogout ==
    \/ \E p \in Procs : Quiet(p) /\ StartLogin(p)
    \/ \E p \in Procs : LoginStep(p, Honest)
    \/ \E p \in Procs, a \in AllAddresses : Quiet(p) /\ StartLogout(p, a)
    \/ \E p \in Procs : LogoutStep(p, Honest)
    \/ \E p \in Procs, a \in AllAddresses :
           Quiet(p) /\ StartSign(p, a, Transfer(Sui(40000000), "0xrecipient"))
    \/ \E p \in Procs : SignStep(p, Honest)

SpecLogout == InitBackend /\ [][NextLogout]_vars

\* SpecLogin: a login served by honest collaborators, then a login in the hostile world
NextLogin ==
    \/ StartLogin(1)
    \/ LoginStep(1, Honest)
    \/ Quiet(2) /\ StartLogin(2)
    \/ LoginStep(2, Hostile)

SpecLogin == Init /\ [][NextLogin]_vars

\* SpecGas: a login served by honest collaborators, then a request to sign in the
\* scarce world
NextGas ==
    \/ StartLogin(1)
    \/ LoginStep(1, Honest)
    \/ \E a \in AllAddresses, payload \in Payloads(Scarce) : Quiet(2) /\ StartSign(2, a, payload)
    \/ SignStep(2, Scarce)
    \/ \E a \in AllAddresses : Quiet(2) /\ StartSignMessage(2, a)
    \/ SignMessageStep(2, Scarce)

SpecGas == InitBackend /\ [][NextGas]_vars

\* SpecCoins: a login served by honest collaborators, then a request to sign in the
\* rich world
NextCoins ==
    \/ StartLogin(1)
    \/ LoginStep(1, Honest)
    \/ \E a \in AllAddresses, payload \in Payloads(Rich) : Quiet(2) /\ StartSign(2, a, payload)
    \/ SignStep(2, Rich)

SpecCoins == InitBackend /\ [][NextCoins]_vars

\* SpecConfig: GET_CONFIG and SAVE_CONFIG requests served one after the other
NextConfig ==
    \/ \E p \in Procs : Quiet(p) /\ StartGetConfig(p)
    \/ \E p \in Procs : LoadConfigFetched(p)
    \/ \E p \in Procs, ok \in BOOLEAN : LoadConfigStored(p, ok)
    \/ \E p \in Procs, ok \in BOOLEAN : LoadConfigSaved(p, ok)
    \/ \E p \in Procs, config \in SavedConfigs : Quiet(p) /\ StartSaveConfig(p, config)
    \/ \E p \in Procs, ok \in BOOLEAN : SaveConfigDone(p, ok)

SpecConfig == Init /\ [][NextConfig]_vars

\* SpecState: two logins served one after the other by honest collaborators, then two
\* requests in flight together that read the state or write it
Readers == {3, 4}

NextState ==
    \/ \E p \in {1, 2} : Quiet(p) /\ StartLogin(p)
    \/ \E p \in {1, 2} : LoginStep(p, Honest)
    \/ \E p \in Readers : Quiet(3) /\ StartGetState(p)
    \/ \E p \in Readers : GetStateStep(p, Faulty)
    \/ \E p \in Readers, enabled \in BOOLEAN : Quiet(3) /\ StartSetOverlay(p, enabled)
    \/ \E p \in Readers, ok \in BOOLEAN : SetOverlayDone(p, ok)
    \/ \E p \in Readers, a \in Addresses : Quiet(3) /\ StartLogout(p, a)
    \/ \E p \in Readers : LogoutStep(p, Faulty)
    \/ ClearSessions

SpecState == InitBackend /\ [][NextState]_vars

\* SpecProof: fetchZkProof applied to a prover response body and to the same body
\* nested under `data`
InitProof ==
    /\ Quiescent /\ bundle = BackendBundle
    /\ probe \in {[NoProbe EXCEPT !.raw = r] : r \in ProbeBodies}

NextProof == ProbeBare \/ ProbeWrapped

SpecProof == InitProof /\ [][NextProof]_vars


\* ------------------------------------------------------------------ claims
LOGIN == "START_TWITCH_LOGIN"
\* request p has ended with the success response of a `type` request
Succeeded(p, type) == pc[p] = "done" /\ resp[p].type = type /\ resp[p].ok
\* request p has ended with a failure response
Failed(p) == pc[p] = "done" /\ ~resp[p].ok
\* the task of request p takes this step
Moves(p) == <<kind[p], pc[p], loc[p]>> # <<kind'[p], pc'[p], loc'[p]>>
\* request p ends in this step
Ends(p) == pc[p] # "done" /\ pc'[p] = "done"
\* the number of entries of request p's trace that satisfy Test
Count(p, Test(_)) == Len(SelectSeq(calls[p], Test))

\* C1: in every reachable state, under any interleaving of logins, logouts and
\* clear-all-sessions, no two sessions of the store have the same address.
C1_NoDuplicateAddress ==
    \A i, j \in 1..Len(store) : store[i].address = store[j].address => i = j

\* two logins for the same address have both been written
C1_Witness ==
    /\ Succeeded(1, LOGIN) /\ Succeeded(2, LOGIN)
    /\ resp[1].data.account.address = resp[2].data.account.address
    /\ Len(store) = 1
    /\ store[1].address = resp[1].data.account.address

\* C2: when a login is written after the earlier requests have ended, the store
\* holds one session for its address, that session is the one this login built (its
\* createdAt is newer than, and its key and proof differ from, those of the session it
\* replaces), it is at index 0, and the other sessions keep their relative order.
C2_ReplaceAtFront ==
    [][\A p \in Procs :
        (kind[p] = LOGIN /\ Ends(p) /\ resp'[p].ok) =>
            LET session == store'[1]
                address == session.address
            IN  /\ store' # <<>>
                /\ sessionToPublicData(session) = resp'[p].data.account
                /\ \A i \in 2..Len(store') : store'[i].address # address
                /\ Tail(store') = SelectSeq(store, LAMBDA s : s.address # address)
                /\ \A i \in 1..Len(store) :
                      store[i].address = address =>
                          /\ session.createdAt > store[i].createdAt
                          /\ session.ephemeralPrivateKey # store[i].ephemeralPrivateKey
                          /\ session.proof # store[i].proof
                          /\ session.maxEpoch = resp'[p].data.account.maxEpoch]_vars

\* the fourth login replaced the session of the first, behind which two others stood
C2_Witness ==
    /\ Succeeded(1, LOGIN) /\ Succeeded(4, LOGIN)
    /\ resp[1].data.account.address = resp[4].data.account.address
    /\ resp[1].data.account.createdAt < resp[4].data.account.createdAt
    /\ Len(store) = 3
    /\ sessionToPublicData(store[1]) = resp[4].data.account
    /\ store[2].createdAt > store[3].createdAt

\* the fields of an AccountSession
SessionFields == {"address", "provider", "sub", "aud", "maxEpoch", "createdAt", "salt",
                  "randomness", "jwt", "proof", "ephemeralPrivateKey"}

\* C3: a step of a login that ends it in failure leaves the session store as it was, a
\* login changes the store in no step but the one that ends it with ok=true, a login that
\* has ended takes no further step, and the step that answers ok=true has put the
\* complete session into the store.
C3_FailedLoginWritesNothing ==
    [][\A p \in Procs :
        /\ (pc[p] = "done") => (pc'[p] = "done" /\ resp'[p] = resp[p])
        /\ (kind'[p] = LOGIN /\ Moves(p)) =>
            /\ (Ends(p) /\ ~resp'[p].ok) => store' = store
            /\ (store' # store) => (Ends(p) /\ resp'[p].ok)
            /\ (Ends(p) /\ resp'[p].ok) =>
                /\ store' # <<>>
                /\ DOMAIN store'[1] = SessionFields
                /\ DOMAIN store'[1].proof
                      = {"proofPoints", "issBase64Details", "headerBase64", "addressSeed"}
                /\ store'[1].jwt # "" /\ store'[1].sub # ""
                /\ sessionToPublicData(store'[1]) = resp'[p].data.account]_vars

\* the second login failed at the store write, behind a first login that was written
C3_Witness ==
    /\ Succeeded(1, LOGIN)
    /\ kind[2] = LOGIN /\ Failed(2) /\ resp[2].error = "storage.session.set failed"
    /\ Len(store) = 1
    /\ sessionToPublicData(store[1]) = resp[1].data.account

\* the milestones of a login, as they appear in a request's trace
Milestone(e) ==
    \/ e.op \in {"launchWebAuthFlow", "storage.session.set"}
    \/ e.op = "fetch" /\ e.service \in {"salt", "prover"}
MilestoneName(e) == IF e.op = "fetch" THEN e.service ELSE e.op
Milestones(p) ==
    LET m == SelectSeq(calls[p], Milestone)
    IN  [i \in 1..Len(m) |-> MilestoneName(m[i])]
LoginOrder == <<"launchWebAuthFlow", "salt", "prover", "storage.session.set">>
\* the milestones behind a login suspended at each await
ReachedAt(at) ==
    CASE at \in {"idle", "loadConfig", "saveSanitized", "epoch"} -> 0
      [] at = "oauth" -> 1
      [] at = "salt" -> 2
      [] at \in {"proof", "readSessions"} -> 3
      [] at = "writeSessions" -> 4
\* the awaits a login may move to from each await, failure apart
Successors(at) ==
    CASE at = "idle" -> {"loadConfig"}
      [] at = "loadConfig" -> {"loadConfig", "saveSanitized", "epoch"}
      [] at = "saveSanitized" -> {"epoch"}
      [] at = "epoch" -> {"oauth"}
      [] at = "oauth" -> {"salt"}
      [] at = "salt" -> {"proof"}
      [] at = "proof" -> {"readSessions"}
      [] at = "readSessions" -> {"writeSessions"}
      [] at = "writeSessions" -> {}
      [] at = "done" -> {}

\* C4: a login launches the OAuth window, requests the salt once the token is there,
\* requests the proof once the salt is there, and writes the session once the proof is
\* there, in this order and skipping none: the milestones behind it are always the first
\* ones of that order, as many as the await it is suspended at tells, a login that
\* succeeded has them all, each step leads to the next await or to the end, only the
\* step after the store write ends with ok=true, and a login that has ended stays ended.
C4_LoginOrder ==
    /\ [](\A p \in Procs :
            kind[p] = LOGIN =>
                /\ Len(Milestones(p)) <= Len(LoginOrder)
                /\ Milestones(p) = SubSeq(LoginOrder, 1, Len(Milestones(p)))
                /\ pc[p] # "done" => Len(Milestones(p)) = ReachedAt(pc[p])
                /\ Succeeded(p, LOGIN) => Milestones(p) = LoginOrder)
    /\ [][\A p \in Procs :
            (kind'[p] = LOGIN /\ Moves(p)) =>
                /\ pc'[p] \in Successors(pc[p]) \cup {"done"}
                /\ (Ends(p) /\ resp'[p].ok) => pc[p] = "writeSessions"
                /\ pc[p] = "done" => pc'[p] = "done"]_vars

\* the login in the hostile world went through every milestone and succeeded
C4_Witness ==
    /\ Succeeded(2, LOGIN)
    /\ Milestones(2) = LoginOrder
    /\ Len(store) = 2

\* C5: SIGN_AND_EXECUTE and SIGN_PERSONAL_MESSAGE for an address that has no session
\* in the store end with the failure "No active session for this address..." and have
\* then done nothing but read the session store: no balance query, faucet request,
\* transaction build, signature or submission.
C5_NoSessionNoWork ==
    /\ [][\A p \in Procs :
            (/\ kind[p] \in {"SIGN_AND_EXECUTE", "SIGN_PERSONAL_MESSAGE"}
             /\ pc[p] = "lookup" /\ Moves(p)
             /\ \A i \in 1..Len(store) : store[i].address # loc[p].address) =>
                /\ pc'[p] = "done"
                /\ resp'[p] = [type |-> kind[p], ok |-> FALSE, error |-> NO_SESSION]]_vars
    /\ [](\A p \in Procs :
            (/\ kind[p] \in {"SIGN_AND_EXECUTE", "SIGN_PERSONAL_MESSAGE"}
             /\ Failed(p) /\ resp[p].error = NO_SESSION) =>
                calls[p] = <<[op |-> "storage.session.get"]>>)

\* a transaction for an address without session, while another account is logged in
C5_Witness ==
    /\ Succeeded(1, LOGIN) /\ Len(store) = 1
    /\ kind[2] = "SIGN_AND_EXECUTE" /\ Failed(2) /\ resp[2].error = NO_SESSION
    /\ calls[2] = <<[op |-> "storage.session.get"]>>

\* the salt in the range of the field, zero apart
InField(n) == n \in 1..(FIELD_MODULUS_BN254 - 1)

\* C6: for every salt the salt service returns as a decimal integer string, the reduced
\* salt is not zero, for a non-negative salt it is the salt modulo FIELD_MODULUS when
\* that is not zero and 1 otherwise, it lies in [1, FIELD_MODULUS - 1], and it is the
\* salt stored in the session.
C6_SaltInField ==
    /\ \A p \in Procs :
        (kind[p] = LOGIN /\ pc[p] \in {"proof", "readSessions"}
            /\ loc[p].salt.t = "string" /\ loc[p].salt.text = "dec") =>
            LET s == loc[p].salt.n
                reduced == loc[p].saltBigInt
            IN  /\ reduced # 0
                /\ s >= 0 => reduced = (IF s % FIELD_MODULUS_BN254 # 0
                                        THEN s % FIELD_MODULUS_BN254 ELSE 1)
                /\ InField(reduced)
    /\ \A p \in Procs :
        (kind[p] = LOGIN /\ pc[p] = "writeSessions") =>
            /\ loc[p].session.salt = loc[p].updatedSessions[1].salt
            /\ InField(loc[p].session.salt)
    /\ \A i \in 1..Len(store) : InField(store[i].salt)

\* what request p's trace tells of its ensureSuiForTransaction call
IsEntry(e) == e.op = "ensureSuiForTransaction"
IsRead(e) == e.op = "collected"
IsFaucet(e) == e.op = "requestSuiFromFaucetV2"
IsFaucetFailure(e) == e.op = "fauceted" /\ ~e.ok
IsFaucetSuccess(e) == e.op = "fauceted" /\ e.ok
IsPoll(e) == e.op = "getBalance" /\ e.by = "requestFaucetAndWait"
Entry(p) == SelectSeq(calls[p], IsEntry)[1]
FirstRead(p) == SelectSeq(calls[p], IsRead)[1]
HasRead(p) == kind[p] = "SIGN_AND_EXECUTE" /\ Count(p, IsRead) > 0
\* the call has returned coin handles or has thrown
Returned(p) == pc[p] \in {"sign", "execute", "done"}
MaxPolls == Len(FAUCET_RETRY_DELAYS_MS)

\* one faucet request, which ends the call without a poll when it fails and is
\* followed by 1 to MaxPolls polls before the call returns or throws when it succeeds
FaucetOnce(p) ==
    /\ Count(p, IsFaucet) = 1
    /\ Count(p, IsFaucetFailure) > 0 =>
        /\ Failed(p) /\ resp[p].error = FAUCET_FAILED
        /\ Count(p, IsPoll) = 0
        /\ Count(p, IsRead) = 1
    /\ (Count(p, IsFaucetSuccess) > 0 /\ Returned(p)) => Count(p, IsPoll) \in 1..MaxPolls

\* what the claim says of a call whose first balance is below the minimum, and of the
\* polls
C7_LowBalance(p) ==
    /\ Count(p, IsFaucet) <= 1
    /\ Count(p, IsPoll) <= MaxPolls
    /\ (HasRead(p) /\ FirstRead(p).totalBalance < Entry(p).minimumRequired) => FaucetOnce(p)

\* C7 as stated: with a first balance below the minimum the faucet is requested once, a
\* failed faucet request ends the call with no poll, otherwise there are 1 to 5 polls
\* before the call returns or throws; with a first balance not below the minimum the
\* faucet is never requested.
C7_AsStated ==
    \A p \in Procs :
        /\ C7_LowBalance(p)
        /\ (HasRead(p) /\ FirstRead(p).totalBalance >= Entry(p).minimumRequired) =>
              Count(p, IsFaucet) = 0

\* C7, amended: with a first balance below the minimum the faucet is requested once, a
\* failed faucet request ends the call with no poll, otherwise the delay loop polls the
\* balance 1 to 5 times before the call returns or throws; the faucet is never requested
\* when the first balance is not below the minimum and lists a coin of positive balance,
\* and is requested once, with the same polls, when it lists none.
C7_FaucetOnceBoundedPolls ==
    \A p \in Procs :
        /\ C7_LowBalance(p)
        /\ (HasRead(p) /\ FirstRead(p).totalBalance >= Entry(p).minimumRequired) =>
            /\ FirstRead(p).coins > 0 => Count(p, IsFaucet) = 0
            /\ FirstRead(p).coins = 0 => FaucetOnce(p)

\* a call that began below the minimum, polled five times and then found its coins
C7_Witness ==
    /\ HasRead(2) /\ FirstRead(2).totalBalance < Entry(2).minimumRequired
    /\ Count(2, IsFaucet) = 1
    /\ Count(2, IsPoll) = MaxPolls
    /\ pc[2] = "sign"

GET_STATE == "GET_EXTENSION_STATE"

\* C8: no step of a GET_STATE request changes the session store or the overlay flag,
\* and two GET_STATE requests between whose beginnings and ends no login, logout, clear
\* or SET_OVERLAY_ENABLED wrote return the same account list and the same overlayEnabled.
C8_GetStateReadOnly ==
    /\ [][\A p \in Procs :
            (kind'[p] = GET_STATE /\ Moves(p)) => (store' = store /\ overlay' = overlay)]_vars
    /\ [](\A p, q \in Procs :
            (/\ Succeeded(p, GET_STATE) /\ Succeeded(q, GET_STATE)
             /\ ~dirty[p] /\ ~dirty[q]) =>
                /\ resp[p].data.state.accounts = resp[q].data.state.accounts
                /\ resp[p].data.state.overlayEnabled = resp[q].data.state.overlayEnabled)

\* two GET_STATE requests, with no write since, both returned the two accounts
C8_Witness ==
    /\ Succeeded(3, GET_STATE) /\ Succeeded(4, GET_STATE)
    /\ ~dirty[3] /\ ~dirty[4]
    /\ Len(resp[3].data.state.accounts) = 2
    /\ resp[3].data.state.accounts = sessionsToPublicData(store)

\* the value the claimed precedence gives key k: saved by the user, else bundled, else
\* built in
Precedence(k) ==
    IF k \in DOMAIN userConfig THEN userConfig[k]
    ELSE IF bundle.ok /\ k \in DOMAIN bundle.data THEN bundle.data[k]
    ELSE BASE_DEFAULT_CONFIG[k]
\* a URL ending in /salts or /salts/, with /ensure put behind it
Ensured(url) ==
    CASE url \in {"https://api.example/salts", "https://api.example/salts/"} ->
            "https://api.example/salts/ensure"
      [] url = "https://api.example/SALTS" -> "https://api.example/SALTS/ensure"
      [] OTHER -> url
\* GET_CONFIG request p ends in this step with the config loadConfig returned
Loaded(p) == kind[p] = "GET_CONFIG" /\ Ends(p) /\ resp'[p].ok
\* loadConfig fails for no other reason than a failing chrome.storage.local
FailsOnStorageOnly ==
    \A p \in Procs :
        (kind[p] = "GET_CONFIG" /\ Ends(p) /\ ~resp'[p].ok) =>
            resp'[p].error \in {"storage.local.get failed", "storage.local.set failed"}

\* C9 as stated: for every key loadConfig returns the user-saved value, else the
\* bundled value, else the built-in default, and a bundle that fails to load does not
\* make loadConfig fail.
C9_AsStated ==
    [][/\ \A p \in Procs :
            Loaded(p) => \A k \in ConfigKeys : resp'[p].data.config[k] = Precedence(k)
       /\ FailsOnStorageOnly]_vars

\* C9, amended: for every key but saltServiceUrl loadConfig returns the user-saved
\* value, else the bundled value, else the built-in default; for saltServiceUrl it
\* returns that value with /ensure put behind a trailing /salts or /salts/, and it then
\* saves the whole returned config as the user's; a bundle that fails to load does not
\* make loadConfig fail.
C9_PrecedenceThenEnsure ==
    [][/\ \A p \in Procs :
            Loaded(p) =>
                LET config == resp'[p].data.config
                IN  /\ DOMAIN config = ConfigKeys
                    /\ \A k \in ConfigKeys \ {"saltServiceUrl"} : config[k] = Precedence(k)
                    /\ config.saltServiceUrl = Ensured(Precedence("saltServiceUrl"))
                    /\ IF config.saltServiceUrl # Precedence("saltServiceUrl")
                       THEN userConfig' = config
                       ELSE userConfig' = userConfig
       /\ FailsOnStorageOnly]_vars

\* a config loaded from a saved client id, the bundle's URLs and the built-in defaults
C9_Witness ==
    \E p \in Procs :
        /\ Succeeded(p, "GET_CONFIG")
        /\ bundle = BackendBundle
        /\ resp[p].data.config.twitchClientId = "mine"
        /\ resp[p].data.config.backendRegistrationUrl = "https://api.example/register"
        /\ resp[p].data.config.zkProverUrl = BASE_DEFAULT_CONFIG.zkProverUrl
        /\ resp[p].data.config.saltServiceUrl = "https://api.example/salts/ensure"

\* the body carries the three required proof fields
Carries(body) ==
    /\ body.isObject
    /\ \A k \in ProofKeys : k \in DOMAIN body.fields /\ body.fields[k] # 0

\* C10: for a prover response body R that carries the proof fields at top level,
\* fetchZkProof returns for {data: R} what it returns for R; and when R and R.data both
\* carry the three required fields, the proof is made of R's top-level fields.
C10_NestedEqualsTop ==
    /\ (probe.bareDone /\ probe.wrappedDone /\ Carries(probe.raw)) =>
        /\ probe.wrapped = probe.bare
        /\ probe.bare.ok <=>
              /\ "addressSeed" \in DOMAIN probe.raw.fields
              /\ probe.raw.fields.addressSeed.t \notin {"empty", "other"}
    /\ (/\ probe.bareDone /\ Carries(probe.raw)
        /\ "data" \in DOMAIN probe.raw.fields /\ Carries(probe.raw.fields.data)
        /\ probe.bare.ok) =>
            /\ \A k \in ProofKeys : probe.bare.proof[k] = probe.raw.fields[k]
            /\ probe.bare.proof.addressSeed.text = probe.raw.fields.addressSeed.seed

\* a body with the proof fields at top level and under `data`, parsed both ways
C10_Witness ==
    /\ probe.bareDone /\ probe.wrappedDone
    /\ Carries(probe.raw)
    /\ "data" \in DOMAIN probe.raw.fields /\ Carries(probe.raw.fields.data)
    /\ probe.bare.ok /\ probe.wrapped.ok
    /\ probe.wrapped.proof.proofPoints = 1

\* ---------------------------------------------------------------------- C11
PublicFields == {"address", "provider", "sub", "aud", "createdAt", "maxEpoch"}
SensitiveFields == SessionFields \ PublicFields
LOGOUT == "LOGOUT_ACCOUNT"
SIGN_MESSAGE == "SIGN_PERSONAL_MESSAGE"

\* the account records a success response carries
AccountsIn(response) ==
    CASE response.type = LOGIN -> {response.data.account}
      [] response.type = LOGOUT ->
            {response.data.accounts[i] : i \in DOMAIN response.data.accounts}
      [] response.type = GET_STATE ->
            {response.data.state.accounts[i] : i \in DOMAIN response.data.state.accounts}
      [] OTHER -> {}

\* the keys of the data of a success response, by type
DataKeys(type) ==
    CASE type = LOGIN -> {{"account"}}
      [] type = LOGOUT -> {{"accounts"}}
      [] type = GET_STATE -> {{"state"}}
      [] type = "SIGN_AND_EXECUTE" -> {{"digest"}}
      [] type = SIGN_MESSAGE -> {{"signature"}}
      [] type = "FETCH_ACCOUNT_OVERVIEW" -> {{"overview"}}
      [] type \in {"GET_CONFIG", "SAVE_CONFIG"} -> {{"config"}}
      [] type = "SET_OVERLAY_ENABLED" -> {{"enabled"}}
      [] type = "UPLOAD_NFT_IMAGE" -> {{"status", "result"}, {"status", "message", "result"}}

\* the session with other values in its sensitive fields
Scrub(session) ==
    [k \in DOMAIN session |-> IF k \in SensitiveFields THEN "other" ELSE session[k]]
Scrubbed(sessions) == [i \in 1..Len(sessions) |-> Scrub(sessions[i])]

\* the responses name no sensitive field, and account data has the public fields only
NamesPublicOnly(p) ==
    /\ resp[p].ok => /\ DOMAIN resp[p] = {"type", "ok", "data"}
                     /\ DOMAIN resp[p].data \in DataKeys(resp[p].type)
                     /\ \A account \in AccountsIn(resp[p]) : DOMAIN account = PublicFields
    /\ ~resp[p].ok => DOMAIN resp[p] = {"type", "ok", "error"}
    /\ Succeeded(p, GET_STATE) =>
           DOMAIN resp[p].data.state = {"overlayEnabled", "accounts"}
    /\ Succeeded(p, "FETCH_ACCOUNT_OVERVIEW") =>
           DOMAIN resp[p].data.overview = {"address", "suiBalance"}
    /\ Succeeded(p, SIGN_MESSAGE) =>
           DOMAIN resp[p].data.signature = {"inputs", "maxEpoch", "userSignature"}

\* C11 (as stated): no response holds a session's proof, among the other sensitive
\* fields: the signature a SIGN_PERSONAL_MESSAGE request is answered with is not made
\* of the proof of a stored session.
C11_AsStated ==
    \A p \in Procs :
        pc[p] = "done" =>
            /\ NamesPublicOnly(p)
            /\ Succeeded(p, SIGN_MESSAGE) =>
                   \A i \in DOMAIN store : resp[p].data.signature.inputs # store[i].proof

\* C11 (amended): the account data of START_TWITCH_LOGIN, LOGOUT_ACCOUNT and
\* GET_EXTENSION_STATE responses has the fields address, provider, sub, aud, createdAt
\* and maxEpoch only, the projection of the store is the same for a store that differs
\* in the sensitive fields only, no response of any type has a field for a session's
\* jwt, ephemeralPrivateKey, salt or randomness, and a failure response has nothing but
\* type, ok and error; the one place a session's proof goes out is the zkLogin
\* signature of a SIGN_PERSONAL_MESSAGE response (proof inputs, maxEpoch, user signature).
C11_PublicDataOnly ==
    /\ \A p \in Procs : pc[p] = "done" => NamesPublicOnly(p)
    /\ sessionsToPublicData(store) = sessionsToPublicData(Scrubbed(store))
    /\ \A i \in DOMAIN store : sessionToPublicData(store[i]) = sessionToPublicData(Scrub(store[i]))

\* a login succeeded and a GET_EXTENSION_STATE was answered with its account
C11_Witness ==
    /\ Succeeded(1, LOGIN) /\ Succeeded(2, GET_STATE)
    /\ Len(resp[2].data.state.accounts) = 1
    /\ resp[2].data.state.accounts[1] = resp[1].data.account

\* ---------------------------------------------------------------------- C12
\* the handlers that have no try/catch of their own
Uncaught == {LOGOUT, GET_STATE, "GET_CONFIG", "SAVE_CONFIG", "SET_OVERLAY_ENABLED"}

\* a call awaited by a handler without try/catch rejects in this step
Throws(p) ==
    \/ LogoutRead(p, FALSE) \/ LogoutWrite(p, FALSE)
    \/ GetStateSessions(p, FALSE) \/ GetStateOverlay(p, FALSE)
    \/ kind[p] = "GET_CONFIG" /\ (LoadConfigStored(p, FALSE) \/ LoadConfigSaved(p, FALSE))
    \/ SaveConfigDone(p, FALSE)
    \/ SetOverlayDone(p, FALSE)

\* sendResponse has been called for request p, with a well-formed envelope of its type
Enveloped(p) ==
    /\ resp[p].type = kind[p]
    /\ resp[p].ok \in BOOLEAN
    /\ resp[p].ok => DOMAIN resp[p] = {"type", "ok", "data"}
    /\ ~resp[p].ok => DOMAIN resp[p] = {"type", "ok", "error"} /\ resp[p].error \in STRING

\* the effect a request without try/catch has when it ends well, and has not otherwise
Effect(p) ==
    CASE kind[p] = "SAVE_CONFIG" -> userConfig' = loc[p].sanitized
      [] kind[p] = "SET_OVERLAY_ENABLED" -> overlay' = (IF loc[p].enabled THEN "true" ELSE "false")
      [] kind[p] = LOGOUT -> store' = loc[p].nextSessions
      [] OTHER -> TRUE
NoEffect(p) ==
    CASE kind[p] = "SAVE_CONFIG" -> userConfig' = userConfig
      [] kind[p] = "SET_OVERLAY_ENABLED" -> overlay' = overlay
      [] kind[p] = LOGOUT -> store' = store
      [] OTHER -> TRUE

\* C12: a request that has not ended has no response, a request that has ended has
\* exactly one, of the request's type, with ok=false and an error string or ok=true and
\* data; the response is set in the step that ends the request and never again; a
\* handler without try/catch of its own (LOGOUT_ACCOUNT, GET_EXTENSION_STATE, GET_CONFIG,
\* SAVE_CONFIG, SET_OVERLAY_ENABLED) answers ok=false exactly when a call it awaits
\* rejects, and has its effect exactly when it answers ok=true; a message of no known
\* type is answered ok=false; and, every collaborator call returning or failing, every
\* request received is eventually answered.
C12_AnsweredOnce ==
    /\ [](\A p \in Procs : /\ pc[p] # "done" => resp[p] = NoResp
                           /\ pc[p] = "done" => Enveloped(p)
                           /\ kind[p] = "UNKNOWN_TYPE" => Failed(p))
    /\ [][\A p \in Procs :
            /\ resp'[p] # resp[p] => Ends(p)
            /\ pc[p] = "done" => pc'[p] = "done" /\ kind'[p] = kind[p]
            /\ Throws(p) => Ends(p) /\ ~resp'[p].ok
            /\ (Ends(p) /\ kind[p] \in Uncaught) =>
                   /\ ~resp'[p].ok <=> Throws(p)
                   /\ IF resp'[p].ok THEN Effect(p) ELSE NoEffect(p)]_vars
    /\ \A p \in Slots : (kind[p] # "idle") ~> (pc[p] = "done")

\* a SAVE_CONFIG whose storage write rejected was answered ok=false by the listener's
\* catch, and a SET_OVERLAY_ENABLED was answered ok=true
C12_Witness ==
    /\ kind[1] = "SAVE_CONFIG" /\ Failed(1) /\ resp[1].type = "SAVE_CONFIG"
    /\ Succeeded(2, "SET_OVERLAY_ENABLED")

\* ---------------------------------------------------------------------- C13
\* the request types that are to leave the session store as it is
StoreReaders ==
    {"SIGN_AND_EXECUTE", SIGN_MESSAGE, GET_STATE, "GET_CONFIG", "SAVE_CONFIG",
     "SET_OVERLAY_ENABLED", "FETCH_ACCOUNT_OVERVIEW", "UPLOAD_NFT_IMAGE", "UNKNOWN_TYPE"}

\* C13: the session store changes in three kinds of step only: the step that ends a
\* login with ok=true (the new list is the session put before the sessions of other
\* addresses of the list the login read), the step that ends a LOGOUT_ACCOUNT with
\* ok=true (the list it read without the sessions of the address), and the options
\* page's clear; no step of a SIGN_AND_EXECUTE, SIGN_PERSONAL_MESSAGE,
\* GET_EXTENSION_STATE, GET_CONFIG, SAVE_CONFIG, SET_OVERLAY_ENABLED,
\* FETCH_ACCOUNT_OVERVIEW or UPLOAD_NFT_IMAGE request changes it, whether the request
\* succeeds or fails; and a session that stays in the store stays as it was written,
\* its proof and addressSeed included.
C13_StoreFrame ==
    [][/\ store' # store =>
            \/ \E p \in Procs : /\ kind[p] = LOGIN /\ Ends(p) /\ resp'[p].ok
                                /\ store' = UpdatedSessions(loc[p].sessions, loc[p].session)
            \/ \E p \in Procs : /\ kind[p] = LOGOUT /\ Ends(p) /\ resp'[p].ok
                                /\ store' = loc[p].nextSessions
            \/ ClearSessions
       /\ \A p \in Procs : (kind'[p] \in StoreReaders /\ Moves(p)) => store' = store
       /\ \A p \in Procs : (Ends(p) /\ ~resp'[p].ok) => store' = store
       /\ \A i \in DOMAIN store, j \in DOMAIN store' :
              store[i].createdAt = store'[j].createdAt => store[i] = store'[j]]_vars

\* a SIGN_PERSONAL_MESSAGE was answered with a signature and the session it signed
\* with is in the store as the login wrote it
C13_Witness ==
    /\ Succeeded(1, LOGIN) /\ Succeeded(2, SIGN_MESSAGE)
    /\ Len(store) = 1
    /\ sessionToPublicData(store[1]) = resp[1].data.account
    /\ resp[2].data.signature.inputs = store[1].proof

\* ---------------------------------------------------------------------- C14
IsRegistration(c) == c.op = "fetch" /\ c.service = "backend"
IsSessionSet(c) == c.op = "storage.session.set"
Registrations(p) == Len(SelectSeq(calls[p], IsRegistration))

\* C14: the trace of a request holds at most one registration POST, and holds one only
\* when the request is a login that ended with ok=true, as its last entry, right after
\* the storage.session.set that persisted the session; the step that ends a login with
\* ok=true sends the POST exactly when the configured backendRegistrationUrl is not
\* blank, to that URL, with the fields of the session it has just stored; a failed login
\* sends none; the step in which the webhook's fetch ends (2xx, another status, or a
\* transport failure) changes neither the response, the store nor any trace, and the
\* outcome once known stays: nothing is sent again.
C14_WebhookOnceAfterPersist ==
    /\ [](\A p \in Procs :
            /\ Registrations(p) <= 1
            /\ Registrations(p) = 1 <=> hook[p] # "none"
            /\ Registrations(p) = 1 =>
                   /\ Succeeded(p, LOGIN)
                   /\ Len(calls[p]) >= 2
                   /\ IsRegistration(calls[p][Len(calls[p])])
                   /\ IsSessionSet(calls[p][Len(calls[p]) - 1])
                   /\ TrimmedNonEmpty(calls[p][Len(calls[p])].url)
                   /\ calls[p][Len(calls[p])].body.walletAddress = resp[p].data.account.address
            /\ Failed(p) => Registrations(p) = 0)
    /\ [][\A p \in Procs :
            /\ (kind[p] = LOGIN /\ Ends(p) /\ resp'[p].ok) =>
                   /\ store' # <<>> /\ store'[1] = loc[p].session
                   /\ resp'[p].data.account = sessionToPublicData(loc[p].session)
                   /\ IF loc[p].config.backendRegistrationUrl \in {"", " "}
                      THEN hook'[p] = "none" /\ calls'[p] = calls[p]
                      ELSE /\ hook'[p] = "inflight"
                           /\ calls'[p] = calls[p] \o
                                  <<RegistrationRequest(loc[p].config, loc[p].session)>>
            /\ hook'[p] # hook[p] =>
                   \/ hook[p] = "none" /\ hook'[p] = "inflight" /\ Ends(p)
                   \/ /\ hook[p] = "inflight"
                      /\ hook'[p] \in {"registered", "rejected", "failed"}
                      /\ UNCHANGED <<store, resp, calls, pc, loc>>]_vars

\* a login answered ok=true with its account while its webhook failed in transport,
\* and the session is in the store
C14_Witness ==
    /\ Succeeded(1, LOGIN) /\ hook[1] = "failed" /\ Registrations(1) = 1
    /\ Len(store) = 1 /\ sessionToPublicData(store[1]) = resp[1].data.account

\* ---------------------------------------------------------------------- C15
\* the address the zkLogin derivation gives for the identity and salt of a session
AddressOfIdentity(session) ==
    computeZkLoginAddressFromSeed(
        genAddressSeed(session.salt, "sub", session.sub, session.aud), session.address.iss)

\* C15: the address of a session a login has stored is the zkLogin address of its
\* (sub, aud, issuer, salt), so two stored sessions of the same sub, aud, issuer and
\* salt have the same address, whatever ephemeral key, randomness, epoch and prover
\* response each login had.
C15_AddressFromIdentity ==
    /\ \A i \in DOMAIN store : store[i].address = AddressOfIdentity(store[i])
    /\ \A i, j \in DOMAIN store :
           (/\ store[i].sub = store[j].sub /\ store[i].aud = store[j].aud
            /\ store[i].address.iss = store[j].address.iss /\ store[i].salt = store[j].salt)
               => store[i].address = store[j].address

\* ---------------------------------------------------------------------- C16
\* the addresses of the sessions in the store
StoredAddresses == {store[i].address : i \in DOMAIN store}

\* C16: when two logins have both ended with ok=true, for different addresses, and
\* nothing but logins has touched the store, the store holds a session for each of the
\* two addresses.
C16_BothLoginsKept ==
    \A p, q \in Procs :
        (/\ Succeeded(p, LOGIN) /\ Succeeded(q, LOGIN)
         /\ resp[p].data.account.address # resp[q].data.account.address)
            => {resp[p].data.account.address, resp[q].data.account.address}
                   \subseteq StoredAddresses

\* ---------------------------------------------------------------------- C17
NO_CLIENT_ID == "Twitch client ID is required. Please configure it in the extension options."
\* the awaits of loadConfig, and the operations loadConfig issues
ConfigPhase == {"loadConfig", "saveSanitized"}
IsConfigOp(c) == c.op \in {"fetch:config.json", "storage.local.get", "storage.local.set"}
\* the config loadConfig is about to return to request p
ConfigReturned(p) ==
    IF pc[p] = "saveSanitized" THEN loc[p].config
    ELSE Spread(IF loc[p].defaults = Pending THEN DefaultsFromBundle(bundle) ELSE loc[p].defaults,
                IF loc[p].stored = Pending THEN userConfig ELSE loc[p].stored)

\* C17: when loadConfig returns to a login a config whose twitchClientId is empty, the
\* login ends in that step with ok=false and the client-ID message, having issued
\* nothing but loadConfig's own operations: no epoch request, no launchWebAuthFlow, no
\* fresh key or randomness, and the session store is as it was; a login goes on to the
\* epoch request only with a non-empty twitchClientId.
C17_NoClientIdFailsFirst ==
    /\ [](\A p \in Procs :
            (kind[p] = LOGIN /\ Failed(p) /\ resp[p].error = NO_CLIENT_ID) =>
                \A n \in DOMAIN calls[p] : IsConfigOp(calls[p][n]))
    /\ [][\A p \in Procs :
            (kind[p] = LOGIN /\ pc[p] \in ConfigPhase /\ pc'[p] \notin ConfigPhase) =>
                /\ pc'[p] = "epoch" =>
                       /\ loc'[p].config.twitchClientId # ""
                       /\ loc'[p].config = ConfigReturned(p)
                /\ (ConfigReturned(p).twitchClientId = ""
                        /\ ~(LoadConfigStored(p, FALSE) \/ LoadConfigSaved(p, FALSE))) =>
                       /\ Ends(p) /\ resp'[p] = ErrorResponse(LOGIN, NO_CLIENT_ID)
                       /\ calls'[p] = calls[p]
                       /\ entropy' = entropy /\ store' = store /\ hook' = hook]_vars

\* the user saved an empty client ID over the bundled one, and the login that followed
\* failed with the client-ID message
C17_Witness ==
    /\ bundle = PlainBundle /\ Succeeded(1, "SAVE_CONFIG")
    /\ kind[2] = LOGIN /\ Failed(2) /\ resp[2].error = NO_CLIENT_ID
    /\ entropy = 0 /\ store = <<>>

\* ---------------------------------------------------------------------- C18
IsEpochRead(c) == c.op = "epoch"
IsLaunch(c) == c.op = "launchWebAuthFlow"
IsProverFetch(c) == c.op = "fetch" /\ c.service = "prover"
\* login p has opened the OAuth window; the nonce it was opened with
Launched(p) == kind[p] = LOGIN /\ Len(SelectSeq(calls[p], IsLaunch)) > 0
NonceOf(p) == SelectSeq(calls[p], IsLaunch)[1].nonce

\* C18: the nonce of a login carries maxEpoch = the epoch that login read + 2, the proof
\* request body carries the nonce's maxEpoch, randomness and public key, and the session
\* stored by the step that ends the login with ok=true has that maxEpoch, that
\* randomness and the private key of that public key; each login reads the epoch once
\* and opens one OAuth window, and no two logins, one after the other or in flight
\* together, have the same key or the same randomness.
C18_OneKeyOneEpoch ==
    /\ [](\A p \in Procs :
            /\ Launched(p) =>
                   /\ Len(SelectSeq(calls[p], IsLaunch)) = 1
                   /\ Len(SelectSeq(calls[p], IsEpochRead)) = 1
                   /\ NonceOf(p).maxEpoch = SelectSeq(calls[p], IsEpochRead)[1].epoch + 2
                   /\ \A n \in DOMAIN calls[p] :
                          IsProverFetch(calls[p][n]) =>
                              /\ calls[p][n].body.maxEpoch = NonceOf(p).maxEpoch
                              /\ calls[p][n].body.randomness = NonceOf(p).randomness
                              /\ calls[p][n].body.ephemeralPublicKey = NonceOf(p).publicKey
            /\ Succeeded(p, LOGIN) =>
                   /\ Launched(p) /\ Len(SelectSeq(calls[p], IsProverFetch)) = 1
                   /\ resp[p].data.account.maxEpoch = NonceOf(p).maxEpoch
            /\ \A q \in Procs :
                   (p # q /\ Launched(p) /\ Launched(q)) =>
                       /\ NonceOf(p).publicKey # NonceOf(q).publicKey
                       /\ NonceOf(p).randomness # NonceOf(q).randomness)
    /\ [][\A p \in Procs :
            (kind[p] = LOGIN /\ Ends(p) /\ resp'[p].ok) =>
                /\ store'[1].maxEpoch = NonceOf(p).maxEpoch
                /\ store'[1].randomness = NonceOf(p).randomness
                /\ store'[1].ephemeralPrivateKey = NonceOf(p).publicKey]_vars

\* two logins in flight together read different epochs and both stored their session
C18_Witness ==
    /\ Succeeded(1, LOGIN) /\ Succeeded(2, LOGIN)
    /\ NonceOf(1).maxEpoch = 12 /\ NonceOf(2).maxEpoch = 13
    /\ Len(store) = 2

\* ---------------------------------------------------------------------- C19
IsRedirected(c) == c.op = "redirected"
IsSaltFetch(c) == c.op = "fetch" /\ c.service = "salt"
\* the OAuth flow called back with an error, with no redirect URL, or with a URL that
\* has no id_token in its fragment
NoIdToken(ans) ==
    \/ ans.lastError # ""
    \/ ~ans.url.present
    \/ ~ans.url.hash
    \/ "id_token" \notin DOMAIN ans.url.params
\* the token handed back lacks the subject, the audience or the issuer claim
LacksClaim(ans) ==
    /\ ~NoIdToken(ans) /\ jwtWellFormed(ans.url.params.id_token)
    /\ LET claims == jwtDecode(ans.url.params.id_token)
       IN  claims.sub = "" \/ claims.aud = Str("") \/ claims.iss = ""

\* C19: once launchWebAuthFlow has called back a login with an error, without redirect
\* URL, without id_token in the fragment, or with a token that lacks sub, aud or iss, the
\* login has ended with ok=false: the callback is the last entry of its trace, which
\* holds no salt request, no proof request and no write of the session store; and the
\* step of the callback leaves the store as it was.
C19_BadRedirectEndsLogin ==
    /\ [](\A p \in Procs : \A n \in DOMAIN calls[p] :
            (IsRedirected(calls[p][n]) /\ (NoIdToken(calls[p][n].ans) \/ LacksClaim(calls[p][n].ans)))
                => /\ kind[p] = LOGIN /\ Failed(p) /\ resp[p].type = LOGIN
                   /\ n = Len(calls[p])
                   /\ \A m \in DOMAIN calls[p] :
                          /\ ~IsSaltFetch(calls[p][m]) /\ ~IsProverFetch(calls[p][m])
                          /\ ~IsSessionSet(calls[p][m]))
    /\ [][\A p \in Procs :
            (pc[p] = "oauth" /\ Ends(p)) => store' = store /\ hook' = hook]_vars

\* the second login got a token without issuer and ended in failure while the first
\* login's session stayed alone in the store
C19_Witness ==
    /\ Succeeded(1, LOGIN) /\ Failed(2) /\ resp[2].error = "Twitch JWT missing issuer."
    /\ Len(store) = 1 /\ store[1].address = resp[1].data.account.address

IsProved(c) == c.op = "proved"
\* the prover URLs of the model that do not begin with http: or https:
RelativeUrls == {"", "/dummy-salt-service.json", "prover.local/v1"}
\* the zkProverUrl of the config in force (nothing is saved by the user in SpecProver)
ProverUrlInForce == DefaultsFromBundle(bundle).zkProverUrl
\* the body `raw` is an object that has the three proof fields neither at top level nor
\* under `data`
LacksProofFields(raw) ==
    raw.isObject /\ ~HasProofFields(raw.fields) /\ ~HasProofFields(NestedOf(raw.fields))
NoSessionWritten(p) == \A m \in DOMAIN calls[p] : ~IsSessionSet(calls[p][m])

\* C21: with a zkProverUrl that is no absolute http(s) URL a login never sends a
\* request to the prover: the step after the salt ends it with ok=false and the URL
\* message; a login whose prover answers 2xx with an object that has not all of
\* proofPoints, issBase64Details and headerBase64, at top level or under `data`, ends
\* with ok=false and the missing-fields message followed by the top-level keys of the
\* answer; in both cases the trace holds no write of the session store and the store
\* stays as it was.
C21_ProverUrlAndFields ==
    /\ [](\A p \in Procs :
            /\ (kind[p] = LOGIN /\ ProverUrlInForce \in RelativeUrls) =>
                   /\ \A n \in DOMAIN calls[p] : ~IsProverFetch(calls[p][n])
                   /\ NoSessionWritten(p) /\ store = <<>> /\ ~Succeeded(p, LOGIN)
            /\ \A n \in DOMAIN calls[p] :
                   (/\ IsProved(calls[p][n]) /\ calls[p][n].ans.ok
                    /\ LacksProofFields(calls[p][n].ans.raw)) =>
                       /\ Failed(p) /\ n = Len(calls[p]) /\ NoSessionWritten(p)
                       /\ resp[p].error =
                              "Invalid proof response: missing fields. Keys present: "
                                  \o JoinKeys(DOMAIN calls[p][n].ans.raw.fields))
    /\ [][\A p \in Procs :
            /\ (kind[p] = LOGIN /\ pc[p] = "salt" /\ pc'[p] # "salt"
                    /\ loc[p].config.zkProverUrl \in RelativeUrls /\ calls'[p] = calls[p]) =>
                   Ends(p) /\ ~resp'[p].ok /\ store' = store
            /\ (pc[p] = "proof" /\ Ends(p)) => store' = store /\ hook' = hook]_vars

\* the prover answered without headerBase64 and the login failed with the keys it saw
C21_Witness ==
    /\ Failed(1) /\ store = <<>>
    /\ resp[1].error = "Invalid proof response: missing fields. Keys present: "
                           \o "proofPoints, issBase64Details, addressSeed"


\* ---------------------------------------------------------------------- C22
\* the fields fetchZkProof reads the proof from: the top level when it has the three
\* proof fields, else the object under `data`
ProofSource(raw) == IF HasProofFields(raw.fields) THEN raw.fields ELSE NestedOf(raw.fields)
\* a 2xx answer with proofPoints, issBase64Details and headerBase64 and no addressSeed
Seedless(ans) ==
    /\ ans.ok /\ ans.raw.isObject
    /\ HasProofFields(ProofSource(ans.raw))
    /\ "addressSeed" \notin DOMAIN ProofSource(ans.raw)

\* C22: a prover answer with the three proof fields and no addressSeed is accepted:
\* the login does not end on it, it goes on to read the session store.
C22_SeedlessProofAccepted ==
    \A p \in Procs : \A n \in DOMAIN calls[p] :
        (IsProved(calls[p][n]) /\ Seedless(calls[p][n].ans)) =>
            /\ ~Failed(p)
            /\ n < Len(calls[p])


\* ---------------------------------------------------------------------- C23
\* the address a verifier reconstructs from the seed of a prover answer and an issuer
AddressFromAnswer(ans, iss) ==
    computeZkLoginAddressFromSeed(fetchZkProofParse(ans.raw).proof.addressSeed.text, iss)
\* the prover answer of login p is a usable proof whose address is not the one of the
\* token and the salt
Disagrees(ans, token, salt) ==
    /\ ans.ok /\ fetchZkProofParse(ans.raw).ok
    /\ fetchZkProofParse(ans.raw).proof.addressSeed.numeric
    /\ AddressFromAnswer(ans, jwtDecode(token).iss) # jwtToAddress(token, salt)
\* jwtToAddress is known to return for this token and salt
Derivable(token, salt) ==
    salt \in 0..(FIELD_MODULUS_BN254 - 1) /\ ~jwtDecode(token).aud.array

\* C23: when the address of the proof's seed and issuer is not the address of the
\* token and the salt, the login goes on past the proof, and a login that answered
\* ok=true has persisted a session whose address, the address of its response and the
\* walletAddress of its webhook are all the proof's address.
C23_ProofAddressWins ==
    /\ [](\A p \in Procs : \A n \in DOMAIN calls[p] :
            (/\ Succeeded(p, LOGIN) /\ IsProved(calls[p][n]) /\ Len(store) = 1
             /\ Disagrees(calls[p][n].ans, store[1].jwt, store[1].salt)) =>
                LET a == AddressFromAnswer(calls[p][n].ans, jwtDecode(store[1].jwt).iss)
                IN  /\ store[1].address = a
                    /\ resp[p].data.account.address = a
                    /\ \A m \in DOMAIN calls[p] :
                           IsRegistration(calls[p][m]) => calls[p][m].body.walletAddress = a
                    /\ TrimmedNonEmpty(DefaultsFromBundle(bundle).backendRegistrationUrl)
                           => Registrations(p) = 1)
    /\ [](\A p \in Procs : Succeeded(p, LOGIN) => Len(store) = 1)
    /\ [][\A p \in Procs :
            (/\ kind[p] = LOGIN /\ pc[p] = "proof" /\ pc'[p] # "proof"
             /\ Len(calls'[p]) > Len(calls[p])
             /\ Disagrees(calls'[p][Len(calls[p]) + 1].ans, loc[p].idToken, loc[p].saltBigInt)
             /\ Derivable(loc[p].idToken, loc[p].saltBigInt)) =>
                /\ pc'[p] = "readSessions"
                /\ loc'[p].userAddress
                       = AddressFromAnswer(calls'[p][Len(calls[p]) + 1].ans, loc[p].issuer)]_vars

\* a login succeeded with a seed of another identity and its webhook was sent
C23_Witness ==
    /\ Succeeded(1, LOGIN) /\ Len(store) = 1 /\ Registrations(1) = 1
    /\ store[1].address # jwtToAddress(store[1].jwt, store[1].salt)
    /\ store[1].proof.addressSeed.text = genAddressSeed(1, "sub", "u9", "clientZ")


\* ---------------------------------------------------------------------- C24
IsGasCoins(c) == c.op = "gasCoins"
IsEnsure(c) == c.op = "ensureSuiForTransaction"
\* the balance of the coin of `page` with object id `id`
BalanceIn(page, id) == page[CHOOSE i \in DOMAIN page : page[i].coinObjectId = id].balance
IdsOf(refs) == {refs[i].objectId : i \in DOMAIN refs}
Max0(n) == IF n > 0 THEN n ELSE 0

\* C24: whenever ensureSuiForTransaction returns coin handles, the total balance read
\* just before is at least max(transferAmount, 0) + GAS_BUFFER_MIST and the page of
\* coins read with it has a coin of positive balance; the handles are at most 32, are
\* distinct coins of the page with a positive balance, are in non-increasing order of
\* balance (each no smaller than the next), are as many as the page allows, and no
\* positive coin of the page left out has a larger balance than the last, the smallest,
\* coin returned.
C24_LargestCoinsReturned ==
    [][\A p \in Procs : \A n \in (Len(calls[p]) + 1)..Len(calls'[p]) :
        IsGasCoins(calls'[p][n]) =>
            LET refs == calls'[p][n].refs
                page == calls'[p][n].page
                positive == {i \in DOMAIN page : page[i].balance > 0}
                ensure == calls'[p][CHOOSE m \in 1..n : IsEnsure(calls'[p][m])]
            IN  /\ n > 1 /\ calls'[p][n - 1].op = "collected"
                /\ calls'[p][n - 1].totalBalance >=
                       Max0(ensure.transferAmountMist) + GAS_BUFFER_MIST
                /\ positive # {}
                /\ Len(refs) >= 1 /\ Len(refs) <= 32
                /\ Len(refs) = (IF Cardinality(positive) < 32 THEN Cardinality(positive) ELSE 32)
                /\ \A i \in DOMAIN refs : \E j \in positive : page[j].coinObjectId = refs[i].objectId
                /\ \A i, j \in DOMAIN refs : i # j => refs[i].objectId # refs[j].objectId
                /\ \A i \in 1..(Len(refs) - 1) :
                       BalanceIn(page, refs[i].objectId) >= BalanceIn(page, refs[i + 1].objectId)
                /\ \A j \in positive :
                       page[j].coinObjectId \notin IdsOf(refs) =>
                           page[j].balance <= BalanceIn(page, refs[Len(refs)].objectId)]_vars

\* handles were returned from a page of forty coins, thirty-five of them positive: 32
\* were taken, and the gas payment of the transaction is those
C24_Witness ==
    \E n \in DOMAIN calls[2] :
        /\ IsGasCoins(calls[2][n]) /\ Len(calls[2][n].page) = 40
        /\ Len(calls[2][n].refs) = 32
        /\ pc[2] = "sign"
        /\ \E m \in DOMAIN calls[2] :
               calls[2][m].op = "setGasPayment" /\ calls[2][m].gasPayment = calls[2][n].refs


\* ---------------------------------------------------------------------- C25
SIGN_AND_EXECUTE == "SIGN_AND_EXECUTE"
AMOUNT_SHORT == "SUI amount still insufficient: top up the wallet and retry"
FEES_SHORT == "testnet faucet SUI has not arrived yet: wait and retry"
\* request p ended where ensureSuiForTransaction read the balance for the last time
\* and found it wanting
EndedShort(p) ==
    /\ kind[p] = SIGN_AND_EXECUTE /\ pc[p] = "done"
    /\ calls[p][Len(calls[p])].op = "collected"
TransferOf(p) == calls[p][CHOOSE m \in DOMAIN calls[p] : IsEnsure(calls[p][m])].transferAmountMist

\* C25: a SIGN_AND_EXECUTE that ends at the last balance read of ensureSuiForTransaction
\* fails, with the amount message exactly when the transfer amount is positive and the
\* total balance read last is below it, and with the fees message in every other case;
\* and the last balance read ends the request so whenever it does not return handles.
C25_ShortfallMessage ==
    /\ [](\A p \in Procs :
            EndedShort(p) =>
                /\ ~resp[p].ok
                /\ resp[p].error \in {AMOUNT_SHORT, FEES_SHORT}
                /\ resp[p].error = AMOUNT_SHORT <=>
                       /\ TransferOf(p) > 0
                       /\ calls[p][Len(calls[p])].totalBalance < TransferOf(p))
    /\ [](\A p \in Procs :
            (Failed(p) /\ resp[p].error \in {AMOUNT_SHORT, FEES_SHORT}) => EndedShort(p))
    /\ [][\A p \in Procs :
            (/\ pc[p] = "collectLast" /\ pc'[p] # "collectLast"
             /\ Len(calls'[p]) > Len(calls[p])
             /\ ~IsGasCoins(calls'[p][Len(calls'[p])]) /\ pc'[p] # "sign") =>
                /\ Ends(p) /\ calls'[p][Len(calls'[p])].op = "collected"
                /\ LET total == calls'[p][Len(calls'[p])].totalBalance
                   IN  \/ total < Max0(loc[p].transferAmountMist) + GAS_BUFFER_MIST
                       \/ calls'[p][Len(calls'[p])].coins = 0]_vars

\* a transfer of 20000000 MIST ended with the amount message at a balance of 10000000
C25_Witness ==
    /\ EndedShort(2) /\ resp[2].error = AMOUNT_SHORT
    /\ TransferOf(2) = 20000000 /\ calls[2][Len(calls[2])].totalBalance = 10000000


\* ---------------------------------------------------------------------- C26
\* the operations of one SIGN_AND_EXECUTE in the order the claim gives them
SignOrder ==
    <<"storage.session.get", "ensureSuiForTransaction", "buildTransaction", "setGasPayment",
      "tx.sign", "executeTransactionBlock">>
IsSignStep(c) == \E i \in DOMAIN SignOrder : c.op = SignOrder[i]
\* the operations of SignOrder request p has begun, in the order it began them
StepsOf(trace) ==
    LET steps == SelectSeq(trace, IsSignStep) IN [i \in DOMAIN steps |-> steps[i].op]
IsStart(s, t) == Len(s) <= Len(t) /\ \A i \in DOMAIN s : s[i] = t[i]
\* the calls ensureSuiForTransaction makes
GasOps == {"getBalance", "getCoins", "requestSuiFromFaucetV2", "sleep", "collected",
           "fauceted", "gasCoins"}
\* the operations that follow the provisioning
AfterGas == {"buildTransaction", "setGasPayment", "tx.sign", "executeTransactionBlock"}
\* how many operations of SignOrder are behind a request that waits at `at`
Behind(at) ==
    CASE at = "lookup" -> 1
      [] at \in {"collectFirst", "faucet", "sleep", "poll", "collectLast"} -> 2
      [] at = "sign" -> 5
      [] at = "execute" -> 6
      [] OTHER -> 0

\* C26: the operations of a SIGN_AND_EXECUTE begin in the order session lookup, gas
\* provisioning, build, gas payment, signing, submission, each at most once, as many
\* as its place of waiting tells; the provisioner's calls all lie between the start of
\* provisioning and the build; the signer is the ephemeral key of the session looked
\* up, the gas payment is the handles the provisioner returned, and the signature
\* submitted is made of that session's proof and maxEpoch and the signer's signature;
\* only the step that ends the submission answers ok=true, with the digest; a step
\* that ends the request in failure begins no operation, and an ended request begins
\* none.
C26_SignOrder ==
    /\ [](\A p \in Procs : kind[p] = SIGN_AND_EXECUTE =>
            /\ IsStart(StepsOf(calls[p]), SignOrder)
            /\ pc[p] # "done" => Len(StepsOf(calls[p])) = Behind(pc[p])
            /\ Succeeded(p, SIGN_AND_EXECUTE) =>
                   StepsOf(calls[p]) = SignOrder /\ resp[p].data.digest = "digest"
            /\ \A n \in DOMAIN calls[p] :
                   calls[p][n].op \in GasOps =>
                       /\ n > 2 /\ calls[p][2].op = "ensureSuiForTransaction"
                       /\ \A m \in 1..(n - 1) : calls[p][m].op \notin AfterGas
                       /\ calls[p][n].op = "gasCoins" =>
                              \A m \in (n + 1)..Len(calls[p]) : calls[p][m].op \notin GasOps)
    /\ [][\A p \in Procs : kind[p] = SIGN_AND_EXECUTE =>
            /\ (pc[p] = "lookup" /\ pc'[p] = "collectFirst") =>
                   /\ loc'[p].session.address = loc[p].address
                   /\ \E i \in DOMAIN store : store[i] = loc'[p].session
            /\ (pc[p] # "sign" /\ pc'[p] = "sign") =>
                   LET n == Len(calls'[p])
                   IN  /\ calls'[p][n].signer = loc[p].session.ephemeralPrivateKey
                       /\ calls'[p][n - 1].gasPayment = calls'[p][n - 3].refs
                       /\ calls'[p][n - 3].op = "gasCoins"
                       /\ calls'[p][n - 2].op = "buildTransaction"
                       /\ loc'[p].session = loc[p].session
            /\ (pc[p] = "sign" /\ pc'[p] = "execute") =>
                   LET signature == calls'[p][Len(calls'[p])].signature
                   IN  /\ signature.inputs = loc[p].session.proof
                       /\ signature.maxEpoch = loc[p].session.maxEpoch
                       /\ signature.userSignature.signedBy = loc[p].session.ephemeralPrivateKey
            /\ (Ends(p) /\ resp'[p].ok) => pc[p] = "execute"
            /\ (Ends(p) /\ ~resp'[p].ok) => StepsOf(calls'[p]) = StepsOf(calls[p])
            /\ pc[p] \notin {"idle", "done"} =>
                   \/ Ends(p)
                   \/ pc'[p] = pc[p] /\ calls'[p] = calls[p]
                   \/ Behind(pc'[p]) > Behind(pc[p])
                   \/ Behind(pc'[p]) = 2 /\ Behind(pc[p]) = 2
            /\ pc[p] = "done" => pc'[p] = "done" /\ calls'[p] = calls[p] /\ resp'[p] = resp[p]]_vars

\* a transfer was submitted and its digest returned
C26_Witness ==
    /\ Succeeded(2, SIGN_AND_EXECUTE) /\ StepsOf(calls[2]) = SignOrder
    /\ \E n \in DOMAIN calls[2] : calls[2][n].op = "requestSuiFromFaucetV2"


\* ---------------------------------------------------------------------- C27
\* the places of waiting at which a SIGN_AND_EXECUTE still holds its payload
BeforeBuild == {"lookup", "collectFirst", "faucet", "sleep", "poll", "collectLast"}
\* amount x 10^9 rounded down, of an amount carried as twice its value in MIST
WholeMist(amount) == (amount.twiceMist - (amount.twiceMist % 2)) \div 2
\* the claim's condition on an intent
Signable(payload) ==
    IF payload.kind = "transfer-sui"
    THEN /\ payload.amount.isNumber /\ payload.amount.finite
         /\ payload.amount.twiceMist >= 2
         /\ payload.recipient # ""
    ELSE payload.bytes # ""
IsSigning(c) == c.op \in {"buildTransaction", "setGasPayment", "tx.sign", "executeTransactionBlock"}

\* C27: no step of a SIGN_AND_EXECUTE whose transfer has no numeric amount, an amount
\* that is below one MIST after rounding down, or no recipient, or whose custom intent
\* has no bytes, builds, signs or submits anything or answers ok=true; and the step
\* that builds and signs a transfer builds a transaction whose sender is the address
\* of the session, which splits the amount in MIST from the gas coin and transfers it
\* to the recipient.
C27_TransferChecked ==
    [][\A p \in Procs : (kind[p] = SIGN_AND_EXECUTE /\ pc[p] \in BeforeBuild) =>
            LET payload == loc[p].payload
            IN  /\ ~Signable(payload) =>
                       /\ pc'[p] \in BeforeBuild \cup {"done"}
                       /\ pc'[p] = "done" => ~resp'[p].ok
                       /\ \A n \in DOMAIN calls'[p] : ~IsSigning(calls'[p][n])
                /\ pc'[p] = "sign" =>
                       /\ Signable(payload)
                       /\ \E n \in DOMAIN calls'[p] :
                              /\ calls'[p][n].op = "buildTransaction"
                              /\ payload.kind = "transfer-sui" =>
                                     calls'[p][n].tx =
                                         [sender |-> loc[p].session.address,
                                          splitFromGas |-> WholeMist(payload.amount),
                                          transferTo |-> payload.recipient]]_vars

\* a transfer of 20000000 MIST to 0xrecipient was built for the session's address and
\* handed to the signer
C27_Witness ==
    /\ kind[2] = SIGN_AND_EXECUTE /\ pc[2] = "sign"
    /\ \E n \in DOMAIN calls[2] :
           /\ calls[2][n].op = "buildTransaction"
           /\ calls[2][n].tx = [sender |-> loc[2].session.address, splitFromGas |-> 20000000,
                                transferTo |-> "0xrecipient"]


\* ---------------------------------------------------------------------- C28
\* the sessions of a list whose address is not a, in the order of the list
Others(sessions, a) == SelectSeq(sessions, LAMBDA s : s.address # a)
\* the six public fields of each session of a list
Projection(sessions) ==
    [i \in DOMAIN sessions |->
        [address |-> sessions[i].address, provider |-> sessions[i].provider,
         sub |-> sessions[i].sub, aud |-> sessions[i].aud,
         createdAt |-> sessions[i].createdAt, maxEpoch |-> sessions[i].maxEpoch]]
HasAddress(sessions, a) == \E i \in DOMAIN sessions : sessions[i].address = a
\* no request other than p is under way
Alone(p) == \A q \in Procs \ {p} : pc[q] \in {"idle", "done"}

\* C28: the step that ends a LOGOUT_ACCOUNT(a) served with no other request under way
\* answers ok=true, leaves in the store the sessions whose address is not a, unchanged
\* and in their order, and nothing of the rest of the state changes; the accounts of
\* its response are the public fields of the store it leaves; when no session has
\* address a the store is left as it was; and a SIGN_AND_EXECUTE for an address that
\* is not among the accounts of the logout answered just before it ends at the session
\* lookup with the no-session error.
C28_LogoutFrame ==
    [][\A p \in Procs :
        /\ (kind[p] = LOGOUT /\ Alone(p) /\ pc[p] = "readSessions" /\ pc'[p] # pc[p]) =>
               /\ pc'[p] = "writeSessions" /\ loc'[p].address = loc[p].address
               /\ store' = store
        /\ (kind[p] = LOGOUT /\ Alone(p) /\ pc[p] = "writeSessions" /\ pc'[p] # pc[p]) =>
               LET a == loc[p].address
               IN  /\ Ends(p) /\ resp'[p].ok /\ resp'[p].type = LOGOUT
                   /\ store' = Others(store, a)
                   /\ ~HasAddress(store', a)
                   /\ ~HasAddress(store, a) => store' = store
                   /\ resp'[p].data.accounts = Projection(store')
                   /\ UNCHANGED <<overlay, userConfig, cachedDefaults, bundle, hook>>
        /\ (/\ kind[p] = SIGN_AND_EXECUTE /\ pc[p] = "lookup" /\ pc'[p] # pc[p] /\ p > 1
            /\ kind[p - 1] = LOGOUT /\ Succeeded(p - 1, LOGOUT)
            /\ ~HasAddress(resp[p - 1].data.accounts, loc[p].address)) =>
               /\ Ends(p) /\ resp'[p] = [type |-> SIGN_AND_EXECUTE, ok |-> FALSE,
                                         error |-> "No active session for this address. Ask the user to log in again."]
               /\ calls'[p] = calls[p]]_vars

\* of two sessions the older was logged out, the other is left; a request to sign for
\* the address logged out then failed
C28_Witness ==
    /\ Succeeded(1, LOGIN) /\ Succeeded(2, LOGIN)
    /\ kind[3] = LOGOUT /\ Succeeded(3, LOGOUT)
    /\ Len(resp[3].data.accounts) = 1 /\ Len(store) = 1
    /\ kind[4] = SIGN_AND_EXECUTE /\ Failed(4)
    /\ resp[4].error = "No active session for this address. Ask the user to log in again."
    /\ resp[1].data.account.address # store[1].address
    /\ resp[2].data.account.address = store[1].address


\* ---------------------------------------------------------------------- C29
\* C29: a login goes on from the salt service to the prover only with a salt that is a
\* non-empty string, whatever the mode of the request.
C29_SaltIsNonEmptyString ==
    [][\A p \in Procs :
        (kind[p] = LOGIN /\ pc[p] = "salt" /\ pc'[p] = "proof") =>
            loc'[p].salt.t = "string" /\ loc'[p].salt.text # "empty"]_vars


\* ---------------------------------------------------------------------- C30
IsDefaultsFetch(c) == c.op = "fetch:config.json"
\* how many times request p has fetched config.json
DefaultsFetches(p) == Len(SelectSeq(calls[p], IsDefaultsFetch))
\* the sum of f over the requests 1..n
RECURSIVE SumOver(_, _)
SumOver(f, n) == IF n = 0 THEN 0 ELSE f[n] + SumOver(f, n - 1)

\* C30: config.json is fetched at most once by all the requests together, whether they
\* are served one after the other or are under way at the same time.
C30_DefaultsFetchedOnce ==
    SumOver([p \in Procs |-> DefaultsFetches(p)], MaxSeqRequests) <= 1


\* ---------------------------------------------------------------------- C31
SAVE_CONFIG == "SAVE_CONFIG"
\* the same with /ensure in place of the last slash
EnsuredTails == {"https://api.example/salts/ensure", "https://api.example/SALTS/ensure"}
EndsSave(p) == kind[p] = SAVE_CONFIG /\ pc[p] = "saveConfig" /\ Ends(p)

\* C31 as stated: the user's saved configuration changes only at the step that ends
\* the write of a SAVE_CONFIG request.
C31_AsStated == [][userConfig' # userConfig => \E p \in Procs : EndsSave(p)]_vars

\* C31: the user's saved configuration changes only at the step that ends the write of
\* a SAVE_CONFIG request, or at the step that ends the write-back of a loadConfig; the
\* write-back leaves as the saved configuration the whole merged config, whose
\* saltServiceUrl ended in /salts or /salts/ and now ends in /salts/ensure.
C31_OnlySaveWrites ==
    [][userConfig' # userConfig =>
            \/ \E p \in Procs : EndsSave(p)
            \/ \E p \in Procs :
                   /\ kind[p] # SAVE_CONFIG /\ pc[p] = "saveSanitized" /\ pc'[p] # pc[p]
                   /\ DOMAIN userConfig' = DOMAIN BASE_DEFAULT_CONFIG
                   /\ userConfig'.saltServiceUrl \in EnsuredTails
                   /\ \A k \in DOMAIN userConfig' \ {"saltServiceUrl"} :
                          userConfig'[k] = loc[p].config[k]]_vars

\* no SAVE_CONFIG was ever asked for, and a configuration is saved
C31_Witness ==
    /\ \A p \in Procs : kind[p] # SAVE_CONFIG
    /\ userConfig # <<>> /\ userConfig.saltServiceUrl = "https://api.example/salts/ensure"


\* ---------------------------------------------------------------------- C32
\* SpecRoundTrip: GET_CONFIG and SAVE_CONFIG requests served one after the other, where
\* a SAVE_CONFIG may also save the config the GET_CONFIG before it returned
SaveReturned(p) ==
    /\ p > 1 /\ Succeeded(p - 1, "GET_CONFIG")
    /\ StartSaveConfig(p, resp[p - 1].data.config)
NextRoundTrip ==
    \/ NextConfig
    \/ \E p \in Procs : Quiet(p) /\ SaveReturned(p)
SpecRoundTrip == Init /\ [][NextRoundTrip]_vars

\* SAVE_CONFIG request p succeeded and the GET_CONFIG right behind it succeeded
SavedThenRead(p) ==
    p + 1 \in Procs /\ Succeeded(p, SAVE_CONFIG) /\ Succeeded(p + 1, "GET_CONFIG")
Echoed(p) == resp[p].data.config
\* the value of key k that reading gives after config c was saved
ReadBack(c, k) ==
    Ensured(IF k \in DOMAIN c THEN c[k]
            ELSE IF bundle.ok /\ k \in DOMAIN bundle.data THEN bundle.data[k]
            ELSE BASE_DEFAULT_CONFIG[k])

\* C32 as stated: a GET_CONFIG right behind a successful SAVE_CONFIG of a complete
\* config returns the config the SAVE_CONFIG response echoed.
C32_AsStated ==
    \A p \in Procs :
        (SavedThenRead(p) /\ DOMAIN Echoed(p) = DOMAIN BASE_DEFAULT_CONFIG) =>
            Echoed(p + 1) = Echoed(p)

\* C32: a GET_CONFIG right behind a successful SAVE_CONFIG returns, key for key, the
\* echoed config laid over the defaults, except that a saltServiceUrl ending in /salts
\* or /salts/ comes back with /ensure put behind it; and saving the config a
\* GET_CONFIG returned and reading again returns that same config, which the
\* SAVE_CONFIG response echoes too.
C32_SaveThenGet ==
    \A p \in Procs :
        /\ SavedThenRead(p) =>
              /\ DOMAIN Echoed(p + 1) = DOMAIN BASE_DEFAULT_CONFIG
              /\ \A k \in DOMAIN Echoed(p + 1) : Echoed(p + 1)[k] = ReadBack(Echoed(p), k)
        /\ (p > 1 /\ SavedThenRead(p) /\ Succeeded(p - 1, "GET_CONFIG")
                  /\ Echoed(p) = Echoed(p - 1)) =>
              Echoed(p + 1) = Echoed(p)

\* a complete config with a saltServiceUrl ending in /salts/ was saved and read back,
\* and the config read back was saved and read again
C32_Witness ==
    /\ SavedThenRead(1) /\ SavedThenRead(3)
    /\ DOMAIN Echoed(1) = DOMAIN BASE_DEFAULT_CONFIG
    /\ Echoed(1).saltServiceUrl = "https://api.example/salts/"
    /\ Echoed(3) = Echoed(2)


\* ---------------------------------------------------------------------- C33
\* an intent of the claim's kinds: a transfer of a zero or negative amount, a transfer
\* without a recipient, a custom transaction without bytes
InvalidIntent(payload) ==
    IF payload.kind = "transfer-sui"
    THEN \/ payload.recipient = ""
         \/ payload.amount.isNumber /\ payload.amount.finite /\ payload.amount.twiceMist <= 0
    ELSE payload.bytes = ""
IsOutward(c) == c.op \in {"requestSuiFromFaucetV2", "sleep"}

\* C33: a SIGN_AND_EXECUTE whose intent is invalid never requests the faucet and never
\* starts a polling delay, and ends with a failure.
C33_InvalidIntentNoFaucet ==
    [][\A p \in Procs :
          (kind[p] = SIGN_AND_EXECUTE /\ pc[p] \in BeforeBuild /\ InvalidIntent(loc[p].payload)) =>
              /\ \A n \in DOMAIN calls'[p] : ~IsOutward(calls'[p][n])
              /\ pc'[p] = "done" => ~resp'[p].ok]_vars


\* ---------------------------------------------------------------------- C34
\* the balances of the coins of `page` that the handles `refs` name, added up
ReturnedBalance(refs, page) ==
    SumOver([i \in DOMAIN refs |-> BalanceIn(page, refs[i].objectId)], Len(refs))

\* C34: whenever ensureSuiForTransaction returns coin handles, the balances of the
\* returned coins add up to at least max(transferAmount, 0) + GAS_BUFFER_MIST.
C34_ReturnedCoinsCover ==
    [][\A p \in Procs : \A n \in (Len(calls[p]) + 1)..Len(calls'[p]) :
        IsGasCoins(calls'[p][n]) =>
            ReturnedBalance(calls'[p][n].refs, calls'[p][n].page) >=
                Max0(calls'[p][CHOOSE m \in 1..n : IsEnsure(calls'[p][m])].transferAmountMist)
                    + GAS_BUFFER_MIST]_vars


\* ---------------------------------------------------------------------- C35
\* the sessions of a list
SessionsIn(sessions) == {sessions[i] : i \in DOMAIN sessions}
\* request p, a login, ends its write of the session store in this step
WritesOwn(p, session) ==
    /\ kind[p] = LOGIN /\ pc[p] = "writeSessions" /\ pc'[p] = "done"
    /\ session = loc[p].session

\* C35: a session that is not in the store, having been cleared, comes into the store
\* by no step but the write of the login that built it: no login or logout in flight
\* puts back a session it read before the store was cleared.
C35_ClearedStayCleared ==
    [][\A session \in SessionsIn(store') \ SessionsIn(store) :
            \E p \in Procs : WritesOwn(p, session)]_vars


\* ---------------------------------------------------------------------- C36
\* request p submits a transaction in this step
Submits(p) == kind[p] = SIGN_AND_EXECUTE /\ pc[p] = "sign" /\ pc'[p] = "execute"
\* request p returns a personal-message signature in this step
ReturnsSignature(p) ==
    kind[p] = SIGN_MESSAGE /\ pc[p] = "sign" /\ pc'[p] = "done" /\ resp'[p].ok

\* C36: a transaction is submitted, and a personal-message signature returned, only
\* with the key and proof of a session that is in the store at that moment: once the
\* session was logged out or cleared, no request uses it, a request that looked it up
\* before included.
C36_NoUseAfterLogout ==
    [][\A p \in Procs :
          (Submits(p) \/ ReturnsSignature(p)) => loc[p].session \in SessionsIn(store)]_vars


\* ---------------------------------------------------------------------- C37
\* SpecFaucet: a login, then one SIGN_AND_EXECUTE against a chain on which each account
\* has a balance that changes only when the faucet's coin arrives:
\*   the account of u1 is empty and the coin arrives during the third delay,
\*   the account of u2 holds one coin of 10,000,000 MIST and the coin arrives during
\*   the second delay,
\*   the account of u3 is empty and the coin does not arrive within the five delays.
\* the number of delays after which the faucet's coin is on the account
ArrivalOf(address) ==
    CASE address = AddressOf("jwt.u1") -> 3
      [] address = AddressOf("jwt.u2") -> 2
      [] OTHER -> Len(FAUCET_RETRY_DELAYS_MS) + 1
\* the coins on the account before the faucet's coin
StartingCoins(address) ==
    IF address = AddressOf("jwt.u2") THEN <<Coin("c1", 10000000)>> ELSE <<>>
\* what getBalance and getCoins answer for the account after `delays` delays
BalanceAt(address, delays) ==
    LET coins == StartingCoins(address)
                    \o (IF delays >= ArrivalOf(address) THEN <<Coin("f1", 100000000)>> ELSE <<>>)
    IN  Chain(SumBalances(coins), coins)
FaucetPayloads ==
    {Custom("bytes"), Transfer(Sui(40000000), "0xrecipient"),
     Transfer(Sui(240000000), "0xrecipient")}
NextFaucet ==
    \/ StartLogin(1)
    \/ LoginStep(1, Honest)
    \/ \E a \in AllAddresses, payload \in FaucetPayloads : Quiet(2) /\ StartSign(2, a, payload)
    \/ SignLookup(2, TRUE)
    \/ pc[2] = "collectFirst" /\ SignCollectFirst(2, BalanceAt(loc[2].session.address, 0))
    \/ \E ok \in BOOLEAN : SignFaucet(2, ok)
    \/ SignSleep(2)
    \/ pc[2] = "poll" /\ SignPoll(2, BalanceAt(loc[2].session.address, loc[2].attempt))
    \/ pc[2] = "collectLast"
          /\ SignCollectLast(2, BalanceAt(loc[2].session.address, loc[2].attempt))
    \/ \E ok \in BOOLEAN : SignSigned(2, ok)
    \/ \E ok \in BOOLEAN : SignExecuted(2, ok)
SpecFaucet == InitBackend /\ [][NextFaucet]_vars

\* the account's balance after `delays` delays covers `minimum`
Covers(address, delays, minimum) ==
    LET answer == BalanceAt(address, delays)
    IN  answer.totalBalance >= minimum /\ \E i \in DOMAIN answer.coins : answer.coins[i].balance > 0
\* a coin of positive balance is listed after `delays` delays
CoinListed(address, delays) ==
    \E i \in DOMAIN BalanceAt(address, delays).coins : BalanceAt(address, delays).coins[i].balance > 0
\* ensureSuiForTransaction of request p ends in this step, after the faucet and the polls
EnsureEnds(p) == kind[p] = SIGN_AND_EXECUTE /\ pc[p] = "collectLast" /\ pc'[p] # "collectLast"
Delays(p) == Count(p, LAMBDA c : c.op = "sleep")

\* C37 as stated: after a successful faucet request, if the balance covers the minimum
\* at or before the fifth poll, ensureSuiForTransaction returns coin handles.
C37_AsStated ==
    [][\A p \in Procs :
          (EnsureEnds(p) /\ \E k \in 1..Len(FAUCET_RETRY_DELAYS_MS) :
                               Covers(loc[p].session.address, k, loc[p].minimumRequired)) =>
              pc'[p] = "sign"]_vars

\* C37: after a successful faucet request the polling ends with the first poll that
\* lists a coin of positive balance, or with the fifth; ensureSuiForTransaction then
\* returns coin handles exactly when the balance at that moment covers the minimum (so a
\* starting balance that is positive but short ends the polling after one delay); and
\* no call sleeps more than the five fixed delays.
C37_PollsUntilACoin ==
    /\ [][\A p \in Procs : EnsureEnds(p) =>
            LET k == Delays(p)
                address == loc[p].session.address
            IN  /\ k \in 1..Len(FAUCET_RETRY_DELAYS_MS)
                /\ \A j \in 1..(k - 1) : ~CoinListed(address, j)
                /\ k < Len(FAUCET_RETRY_DELAYS_MS) => CoinListed(address, k)
                /\ pc'[p] = "sign" <=> Covers(address, k, loc[p].minimumRequired)
                /\ pc'[p] # "sign" => (pc'[p] = "done" /\ ~resp'[p].ok)]_vars
    /\ [](\A p \in Procs : Delays(p) <= Len(FAUCET_RETRY_DELAYS_MS))

\* the faucet's coin arrived during the third delay on an empty account and the
\* transaction is being signed on it
C37_Witness ==
    /\ kind[2] = SIGN_AND_EXECUTE /\ pc[2] = "sign"
    /\ Delays(2) = 3
    /\ \E n \in DOMAIN calls[2] : calls[2][n] = Fauceted(TRUE)

====
